---- MODULE Spec2Model ----
(***************************************************************************)
(* A model of the Bristol Stock Exchange simulator (borsim.py): the limit  *)
(* order book halves, the Exchange built on them, the Trader base class    *)
(* bookkeeping and the market_session loop that drives them.               *)
(*                                                                         *)
(* Python dictionaries keep insertion order, and assigning to an existing  *)
(* key keeps the key's position: Orderbook_half.orders is therefore a      *)
(* sequence of orders with at most one order per trader id, and every      *)
(* iteration over it runs in that sequence's order.                        *)
(***************************************************************************)
EXTENDS Integers, Sequences, FiniteSets, TLC

(***************************************************************************)
(* Program constants and bounds                                            *)
(***************************************************************************)
bse_sys_minprice == 1
bse_sys_maxprice == 1000

\* bounds of the model
MaxPrice == 2      \* order and limit prices range over bse_sys_minprice..MaxPrice
n_buyers == 1      \* traders B00 .. B(n_buyers-1)
n_sellers == 1     \* traders S00 .. S(n_sellers-1)
MaxOps == 3        \* Spec: number of Exchange calls in a run
MaxTicks == 6      \* SessionSpec: endtime of the session, in timesteps
MaxRounds == 4     \* StrategySpec: customer orders and passes of the session loop in a run
MaxTurns == 7      \* LearnerSpec: endtime of the session, in timesteps
Interval == 1      \* SessionSpec: os['interval'], in timesteps

Prices == bse_sys_minprice .. MaxPrice
Buyers == {<<"B", i>> : i \in 0 .. (n_buyers - 1)}
Sellers == {<<"S", i>> : i \in 0 .. (n_sellers - 1)}
Tids == Buyers \cup Sellers
OTypes == {"Bid", "Ask"}

\* Python's None, for a price and for a trader id
None == -1
NoTid == <<"None", 0>>
NoTrade == [type |-> "None"]

(***************************************************************************)
(* class Order                                                             *)
(***************************************************************************)
Order(tid, otype, price, qty, time, qid) ==
    [tid |-> tid, otype |-> otype, price |-> price, qty |-> qty, time |-> time, qid |-> qid]

NoOrder == Order(NoTid, "None", None, 0, 0, None)

(***************************************************************************)
(* The orders dictionary of a book half: a sequence of orders, one per tid *)
(***************************************************************************)
DictKeys(d) == {d[i].tid : i \in 1 .. Len(d)}

DictGet(d, tid) ==
    IF tid \in DictKeys(d)
    THEN d[CHOOSE i \in 1 .. Len(d) : d[i].tid = tid]
    ELSE NoOrder

\* a dictionary that would keep the old entry beside the new one
DictSet_append(d, order) == Append(d, order)

\* d[order.tid] = order : an existing key keeps its position, a new key goes last
DictSet(d, order) ==
    IF order.tid \in DictKeys(d)
    THEN [i \in 1 .. Len(d) |-> IF d[i].tid = order.tid THEN order ELSE d[i]]
    ELSE Append(d, order)

\* del d[tid]
DictDel(d, tid) == SelectSeq(d, LAMBDA o : o.tid # tid)

(***************************************************************************)
(* class Orderbook_half                                                    *)
(***************************************************************************)
Orderbook_half(booktype, worstprice) ==
    [booktype |-> booktype, orders |-> <<>>, lob |-> <<>>, lob_anon |-> <<>>,
     best_price |-> None, best_tid |-> NoTid, worstprice |-> worstprice,
     n_orders |-> 0, lob_depth |-> 0]

RECURSIVE SumQty(_)
SumQty(s) == IF s = <<>> THEN 0 ELSE Head(s).qty + SumQty(Tail(s))

RECURSIVE SortedSeq(_)
\* sorted(S) for a finite set of integers: ascending
SortedSeq(S) ==
    IF S = {} THEN <<>>
    ELSE LET m == CHOOSE x \in S : \A y \in S : x <= y
         IN <<m>> \o SortedSeq(S \ {m})

SetMax(S) == CHOOSE x \in S : \A y \in S : y <= x
SetMin(S) == CHOOSE x \in S : \A y \in S : x <= y

\* the index with the quantity of a level not accumulated
LobOf_noaccum(orders) ==
    [p \in {orders[i].price : i \in 1 .. Len(orders)} |->
        LET at == SelectSeq(orders, LAMBDA o : o.price = p)
        IN [qty |-> at[Len(at)].qty,
            list |-> [i \in 1 .. Len(at) |-> <<at[i].time, at[i].qty, at[i].tid, at[i].qid>>]]]

\* the price index built by the loop of build_lob: price -> [qty, orderlist],
\* orderlist in the iteration order of the orders dictionary
LobOf(orders) ==
    [p \in {orders[i].price : i \in 1 .. Len(orders)} |->
        LET at == SelectSeq(orders, LAMBDA o : o.price = p)
        IN [qty |-> SumQty(at),
            list |-> [i \in 1 .. Len(at) |-> <<at[i].time, at[i].qty, at[i].tid, at[i].qid>>]]]

\* an anonymized view listed by descending price
anonymize_lob_descending(lob) ==
    LET keys == SortedSeq(DOMAIN lob)
    IN [i \in 1 .. Len(keys) |-> <<keys[Len(keys) + 1 - i], lob[keys[Len(keys) + 1 - i]].qty>>]

anonymize_lob(lob) ==
    LET keys == SortedSeq(DOMAIN lob)
    IN [i \in 1 .. Len(keys) |-> <<keys[i], lob[keys[i]].qty>>]

\* the cached best price and best trader id read from the index of a non-empty
\* half: build_lob, and again Exchange.add_order and Exchange.del_order
RefreshBest(h) ==
    LET best_price == IF h.booktype = "Bid" THEN h.lob_anon[Len(h.lob_anon)][1]
                      ELSE h.lob_anon[1][1]
    IN [h EXCEPT !.best_price = best_price, !.best_tid = h.lob[best_price].list[1][3]]

\* the half with its index and anonymized view rebuilt from its orders
Indexed(h) ==
    [h EXCEPT !.lob = LobOf(h.orders), !.lob_anon = anonymize_lob(LobOf(h.orders))]

\* the end of build_lob: best price and trader id, both None on an empty index
Summarized(h) ==
    IF DOMAIN h.lob # {} THEN RefreshBest(h)
    ELSE [h EXCEPT !.best_price = None, !.best_tid = NoTid]

build_lob(h) == Summarized(Indexed(h))

\* book_add reading the old order count only after the update
book_add_stale(h, order) ==
    [half |-> build_lob([h EXCEPT !.orders = DictSet(h.orders, order),
                                  !.n_orders = Len(DictSet(h.orders, order))]),
     response |-> IF Len(DictSet(h.orders, order)) # Len(DictSet(h.orders, order))
                  THEN "Addition" ELSE "Overwrite"]

\* returns [half, response]
book_add(h, order) ==
    [half |-> build_lob([h EXCEPT !.orders = DictSet(h.orders, order),
                                  !.n_orders = Len(DictSet(h.orders, order))]),
     response |-> IF h.n_orders # Len(DictSet(h.orders, order))
                  THEN "Addition" ELSE "Overwrite"]

\* a book_del that deletes the owner's entry and does not rebuild the index
book_del_norebuild(h, order) ==
    IF order.tid \in DictKeys(h.orders)
    THEN [h EXCEPT !.orders = DictDel(h.orders, order.tid),
                   !.n_orders = Len(DictDel(h.orders, order.tid))]
    ELSE h

\* a book_del that looks for the order object instead of the owner's entry
book_del_byorder(h, order) ==
    IF \E i \in 1 .. Len(h.orders) : h.orders[i] = order
    THEN build_lob([h EXCEPT !.orders = DictDel(h.orders, order.tid),
                             !.n_orders = Len(DictDel(h.orders, order.tid))])
    ELSE h

book_del(h, order) ==
    IF order.tid \in DictKeys(h.orders)
    THEN build_lob([h EXCEPT !.orders = DictDel(h.orders, order.tid),
                             !.n_orders = Len(DictDel(h.orders, order.tid))])
    ELSE h

\* the trader id at the head of the best level's list
BestCounterparty(h) == h.lob[h.best_price].list[1][3]

\* the body of delete_best that leaves the counterparty's order in the orders
\* dictionary when the best level holds more than one order
DeletedBest_keep(h, best_price_counterparty) ==
    IF h.lob[h.best_price].qty = 1
    THEN IF h.n_orders - 1 > 0
         THEN [h EXCEPT !.orders = DictDel(h.orders, best_price_counterparty),
                        !.n_orders = h.n_orders - 1,
                        !.best_price = IF h.booktype = "Bid"
                                       THEN SetMax(DOMAIN h.lob \ {h.best_price})
                                       ELSE SetMin(DOMAIN h.lob \ {h.best_price}),
                        !.lob_depth = Cardinality(DOMAIN h.lob \ {h.best_price})]
         ELSE [h EXCEPT !.orders = DictDel(h.orders, best_price_counterparty),
                        !.n_orders = h.n_orders - 1,
                        !.best_price = h.worstprice, !.lob_depth = 0]
    ELSE [h EXCEPT !.n_orders = h.n_orders - 1]

\* the body of delete_best before its closing build_lob: the two branches on
\* the quantity at the best price
DeletedBest(h, best_price_counterparty) ==
    IF h.lob[h.best_price].qty = 1
    THEN IF h.n_orders - 1 > 0
         THEN [h EXCEPT !.orders = DictDel(h.orders, best_price_counterparty),
                        !.n_orders = h.n_orders - 1,
                        !.best_price = IF h.booktype = "Bid"
                                       THEN SetMax(DOMAIN h.lob \ {h.best_price})
                                       ELSE SetMin(DOMAIN h.lob \ {h.best_price}),
                        !.lob_depth = Cardinality(DOMAIN h.lob \ {h.best_price})]
         ELSE [h EXCEPT !.orders = DictDel(h.orders, best_price_counterparty),
                        !.n_orders = h.n_orders - 1,
                        !.best_price = h.worstprice, !.lob_depth = 0]
    ELSE [h EXCEPT !.orders = DictDel(h.orders, best_price_counterparty),
                   !.n_orders = h.n_orders - 1]

\* returns [half, counterparty]; the caller guarantees best_price is a key of lob
delete_best(h) ==
    [half |-> build_lob(DeletedBest(h, BestCounterparty(h))),
     counterparty |-> BestCounterparty(h)]

(***************************************************************************)
(* class Orderbook / class Exchange                                        *)
(***************************************************************************)
Orderbook ==
    [bids |-> Orderbook_half("Bid", bse_sys_minprice),
     asks |-> Orderbook_half("Ask", bse_sys_maxprice),
     tape |-> <<>>, quote_id |-> 0]

\* add_order once the order carries its quote id
Admitted(e, order) ==
    IF order.otype = "Bid"
    THEN [exchange |-> [e EXCEPT !.quote_id = order.qid + 1,
                                 !.bids = RefreshBest(book_add(e.bids, order).half)],
          order |-> order, qid |-> order.qid,
          response |-> book_add(e.bids, order).response]
    ELSE [exchange |-> [e EXCEPT !.quote_id = order.qid + 1,
                                 !.asks = RefreshBest(book_add(e.asks, order).half)],
          order |-> order, qid |-> order.qid,
          response |-> book_add(e.asks, order).response]

\* add_order handing out the same id every time
add_order_sameid(e, order0) == Admitted(e, [order0 EXCEPT !.qid = 0])

\* returns [exchange, order, qid, response]
add_order(e, order0) == Admitted(e, [order0 EXCEPT !.qid = e.quote_id])

CancelRecord(time, order) == [type |-> "Cancel", time |-> time, order |-> order]

\* the end of one branch of del_order: the best price of the half re-read
Reread(h) ==
    IF h.n_orders > 0 THEN RefreshBest(h)
    ELSE [h EXCEPT !.best_price = None, !.best_tid = NoTid]

\* one branch of del_order: the half after book_del with its best price re-read
DelFromHalf(h, order) == Reread(book_del(h, order))

del_order(e, time, order) ==
    IF order.otype = "Bid"
    THEN [e EXCEPT !.bids = DelFromHalf(e.bids, order),
                   !.tape = Append(e.tape, CancelRecord(time, order))]
    ELSE [e EXCEPT !.asks = DelFromHalf(e.asks, order),
                   !.tape = Append(e.tape, CancelRecord(time, order))]

\* the tape modes a caller can pass to tape_dump
TModes == {"keep", "wipe"}

\* Exchange.tape_dump: the file it writes is outside the state; the tape is
\* emptied when tmode is 'wipe'
tape_dump(e, tmode) == IF tmode = "wipe" THEN [e EXCEPT !.tape = <<>>] ELSE e

TransactionRecord(time, price, counterparty, order) ==
    [type |-> "Trade", time |-> time, price |-> price,
     party1 |-> counterparty, party2 |-> order.tid, qty |-> order.qty]

\* the crossing test with its comparisons strict, and with them reversed
Crosses_strict(e, order) ==
    IF order.otype = "Bid"
    THEN e.asks.n_orders > 0 /\ e.bids.best_price > e.asks.best_price
    ELSE e.bids.n_orders > 0 /\ e.asks.best_price < e.bids.best_price

Crosses_reversed(e, order) ==
    IF order.otype = "Bid"
    THEN e.asks.n_orders > 0 /\ e.bids.best_price <= e.asks.best_price
    ELSE e.bids.n_orders > 0 /\ e.asks.best_price >= e.bids.best_price

\* the crossing test of process_order2, read after admission
Crosses(e, order) ==
    IF order.otype = "Bid"
    THEN e.asks.n_orders > 0 /\ e.bids.best_price >= e.asks.best_price
    ELSE e.bids.n_orders > 0 /\ e.asks.best_price <= e.bids.best_price

\* the counterparty and the price of a trade, read after admission: the cached
\* best trader id and best price of the side opposite to the incoming order
Counterparty_own(e, order) ==
    IF order.otype = "Bid" THEN e.bids.best_tid ELSE e.asks.best_tid

Counterparty(e, order) ==
    IF order.otype = "Bid" THEN e.asks.best_tid ELSE e.bids.best_tid

TradePrice_incoming(e, order) == order.price

TradePrice(e, order) ==
    IF order.otype = "Bid" THEN e.asks.best_price ELSE e.bids.best_price

\* the branch of process_order2 that executes: delete_best on the opposite
\* half, then on the incoming order's half, and the trade onto the tape
Executed(e, order, response, trade) ==
    [exchange |-> IF order.otype = "Bid"
                  THEN [e EXCEPT !.asks = delete_best(e.asks).half,
                                 !.bids = delete_best(e.bids).half,
                                 !.tape = Append(e.tape, trade)]
                  ELSE [e EXCEPT !.bids = delete_best(e.bids).half,
                                 !.asks = delete_best(e.asks).half,
                                 !.tape = Append(e.tape, trade)],
     trade |-> trade, order |-> order, response |-> response, admitted |-> e,
     del1 |-> IF order.otype = "Bid" THEN delete_best(e.asks).counterparty
              ELSE delete_best(e.bids).counterparty,
     del2 |-> IF order.otype = "Bid" THEN delete_best(e.bids).counterparty
              ELSE delete_best(e.asks).counterparty]

\* process_order2 after its add_order call a
Matched(a, time) ==
    IF Crosses(a.exchange, a.order)
    THEN Executed(a.exchange, a.order, a.response,
                  TransactionRecord(time, TradePrice(a.exchange, a.order),
                                    Counterparty(a.exchange, a.order), a.order))
    ELSE [exchange |-> a.exchange, trade |-> NoTrade, order |-> a.order,
          response |-> a.response, admitted |-> a.exchange, del1 |-> NoTid, del2 |-> NoTid]

\* returns [exchange, trade, order, response, admitted, del1, del2]:
\* admitted is the exchange right after add_order, del1 and del2 are what the
\* two delete_best calls returned (NoTid when they were not made)
process_order2(e, time, order0) == Matched(add_order(e, order0), time)

(***************************************************************************)
(* class Trader: the state and methods every strategy shares               *)
(***************************************************************************)
\* a trader born three timesteps after the time it is created with
Trader_bornlate(tid, balance, time) ==
    [tid |-> tid, balance |-> balance, blotter |-> <<>>, orders |-> <<>>, n_quotes |-> 0,
     birthtime |-> time + 3, profitpertime |-> <<0, 1>>, n_trades |-> 0, lastquote |-> NoOrder]

\* profitpertime is kept as the pair <<balance, time - birthtime>> it divides
Trader(tid, balance, time) ==
    [tid |-> tid, balance |-> balance, blotter |-> <<>>, orders |-> <<>>, n_quotes |-> 0,
     birthtime |-> time, profitpertime |-> <<0, 1>>, n_trades |-> 0, lastquote |-> NoOrder]

\* returns [trader, response]
Trader_add_order(tr, order) ==
    [trader |-> [tr EXCEPT !.orders = <<order>>],
     response |-> IF tr.n_quotes > 0 THEN "LOB_Cancel" ELSE "Proceed"]

\* a del_order that leaves the customer order in place
Trader_del_order_keep(tr) == tr

Trader_del_order(tr) == [tr EXCEPT !.orders = <<>>]

\* profit = limit - price for a Bid, price - limit for an Ask
Profit(tr, trade) ==
    IF tr.orders[1].otype = "Bid" THEN tr.orders[1].price - trade.price
    ELSE trade.price - tr.orders[1].price

\* bookkeep without the trade count
Booked_nocount(tr, trade) ==
    [tr EXCEPT !.blotter = Append(tr.blotter, trade),
               !.balance = tr.balance + Profit(tr, trade)]

\* the trader after the statements of bookkeep up to the division
Booked(tr, trade) ==
    [tr EXCEPT !.blotter = Append(tr.blotter, trade),
               !.balance = tr.balance + Profit(tr, trade),
               !.n_trades = tr.n_trades + 1]

\* returns [trader, profit, exit]: exit names the statement that ends the program
\* inside bookkeep ("" when bookkeep returns)
bookkeep(tr, trade, time) ==
    IF Len(tr.orders) = 0
    THEN [trader |-> [tr EXCEPT !.blotter = Append(tr.blotter, trade)],
          profit |-> 0, exit |-> "IndexError"]
    ELSE IF time = tr.birthtime
    THEN [trader |-> Booked(tr, trade), profit |-> Profit(tr, trade),
          exit |-> "ZeroDivisionError"]
    ELSE IF Profit(tr, trade) < 0
    THEN [trader |-> [Booked(tr, trade) EXCEPT
                         !.profitpertime = <<tr.balance + Profit(tr, trade),
                                             time - tr.birthtime>>],
          profit |-> Profit(tr, trade), exit |-> "sys.exit"]
    ELSE [trader |-> Trader_del_order([Booked(tr, trade) EXCEPT
                         !.profitpertime = <<tr.balance + Profit(tr, trade),
                                             time - tr.birthtime>>]),
          profit |-> Profit(tr, trade), exit |-> ""]

(***************************************************************************)
(* getorder, for every strategy: what a call can return and leave behind   *)
(***************************************************************************)
\* [order, lastquote, lob], lob the snapshot as the call leaves it: a trader without a customer order returns None; one with a
\* customer order builds a quote of the customer order's type at a price its
\* strategy computes, stores it as lastquote and returns it (all strategies), or
\* stores it and returns None (GDX on its first turn, Trader_GDX.getorder), or
\* returns None before building one (Sniper while lurking, AA when outbid)
getorder(tr, time, lob) ==
    IF Len(tr.orders) < 1
    THEN {[order |-> NoOrder, lastquote |-> tr.lastquote, lob |-> lob]}
    ELSE LET quotes == {Order(tr.tid, tr.orders[1].otype, p, tr.orders[1].qty, time, lob.QID) :
                            p \in Prices}
         IN {[order |-> q, lastquote |-> q, lob |-> lob] : q \in quotes}
            \cup {[order |-> NoOrder, lastquote |-> q, lob |-> lob] : q \in quotes}
            \cup {[order |-> NoOrder, lastquote |-> tr.lastquote, lob |-> lob]}

\* a respond that empties the tape list of the snapshot it is given
respond_wipes(tr, time, lob, trade) == [trader |-> tr, lob |-> [lob EXCEPT !.tape = <<>>]]

\* respond, for every strategy: [trader, lob]. Trader.respond does nothing;
\* ZIP, AA and GDX read lob and trade and update the learning state their next
\* quote price comes from, which getorder above leaves open; none writes to lob
respond(tr, time, lob, trade) == [trader |-> tr, lob |-> lob]

\* Exchange.publish_lob
publish_lob(e, time) ==
    [time |-> time,
     bids |-> [best |-> e.bids.best_price, worst |-> e.bids.worstprice,
               n |-> e.bids.n_orders, lob |-> e.bids.lob_anon],
     asks |-> [best |-> e.asks.best_price, worst |-> e.asks.worstprice,
               n |-> e.asks.n_orders, lob |-> e.asks.lob_anon],
     QID |-> e.quote_id, tape |-> e.tape]

\* the Exchange seen through a snapshot that a callee had in its hands: the
\* 'tape' and 'lob' entries of public_data are the Exchange's own lists
WriteBack(e, lob) ==
    [e EXCEPT !.tape = lob.tape, !.bids.lob_anon = lob.bids.lob,
              !.asks.lob_anon = lob.asks.lob]

(***************************************************************************)
(* customer_orders                                                         *)
(***************************************************************************)
\* the trader ids in roster order: buyers B00.., then sellers S00..
Roster ==
    [i \in 1 .. (n_buyers + n_sellers) |->
        IF i <= n_buyers THEN <<"B", i - 1>> ELSE <<"S", i - 1 - n_buyers>>]

\* getissuetimes with fittointerval: every issue time lies in 0..interval and the
\* largest one on each side is the interval itself
IssueTimes ==
    {it \in [Tids -> 0 .. Interval] :
        /\ \E b \in Buyers : it[b] = Interval
        /\ \E s \in Sellers : it[s] = Interval}

\* the branch of customer_orders taken when pending is empty: one new customer
\* order per trader, Bid for buyers and Ask for sellers, nothing issued
NewPending(time, issuetimes, orderprice) ==
    [i \in 1 .. Len(Roster) |->
        Order(Roster[i], IF i <= n_buyers THEN "Bid" ELSE "Ask", orderprice[Roster[i]], 1,
              time + issuetimes[Roster[i]], None)]

RECURSIVE IssueDue(_, _, _, _, _)
\* the loop over pending: returns [traders, new_pending, cancellations]
IssueDue(time, trs, pending, new_pending, cancellations) ==
    IF pending = <<>>
    THEN [traders |-> trs, new_pending |-> new_pending, cancellations |-> cancellations]
    ELSE LET order == Head(pending)
         IN IF order.time < time
            THEN LET r == Trader_add_order(trs[order.tid], order)
                 IN IssueDue(time, [trs EXCEPT ![order.tid] = r.trader], Tail(pending),
                             new_pending,
                             IF r.response = "LOB_Cancel"
                             THEN Append(cancellations, order.tid) ELSE cancellations)
            ELSE IssueDue(time, trs, Tail(pending), Append(new_pending, order), cancellations)

\* returns [traders, new_pending, cancellations]
customer_orders(time, trs, pending, issuetimes, orderprice) ==
    IF Len(pending) < 1
    THEN [traders |-> trs, new_pending |-> NewPending(time, issuetimes, orderprice),
          cancellations |-> <<>>]
    ELSE IssueDue(time, trs, pending, <<>>, <<>>)

(***************************************************************************)
(* market_session: the parts of one pass through the loop                  *)
(***************************************************************************)
\* time = time + timestep, the clock counted in timesteps
\* (timestep = 1.0 / (n_buyers + n_sellers))
NextTime_stuck(t) == t

NextTime(t) == t + 1

\* a session that leaves the resting quotes of the cancellation list in the book
Kills_skip(e, trs, time, kills) == e

RECURSIVE Kills(_, _, _, _)
\* the loop over kills: del_order of each named trader's lastquote, if it has one
Kills(e, trs, time, kills) ==
    IF kills = <<>> THEN e
    ELSE LET lq == trs[Head(kills)].lastquote
         IN Kills(IF lq # NoOrder THEN del_order(e, time, lq) ELSE e, trs, time, Tail(kills))

RECURSIVE Responds(_, _, _, _, _, _)
\* the loop 'for t in traders' from roster position i on: every trader's respond
\* is called with the same lob dictionary; returns [traders, lob, calls]
Responds(trs, i, time, lob, trade, calls) ==
    IF i > Len(Roster) THEN [traders |-> trs, lob |-> lob, calls |-> calls]
    ELSE Responds([trs EXCEPT ![Roster[i]] = respond(trs[Roster[i]], time, lob, trade).trader],
                  i + 1, time, respond(trs[Roster[i]], time, lob, trade).lob, trade,
                  Append(calls, Roster[i]))

\* the session without the two checks
BadQuote_off(order, tr) == ""

\* the session with the check on asks only
BadQuote_asksonly(order, tr) ==
    IF order.otype = "Ask" /\ order.price < tr.orders[1].price THEN "Bad ask" ELSE ""

\* the two checks made on a quote before it is sent to the exchange
BadQuote(order, tr) ==
    IF order.otype = "Ask" /\ order.price < tr.orders[1].price THEN "Bad ask"
    ELSE IF order.otype = "Bid" /\ order.price > tr.orders[1].price THEN "Bad bid"
    ELSE ""

\* the second bookkeep call, on party2, after b1 of party1 returned
SettleSecond(trs1, trade, b1, b2) ==
    [traders |-> [trs1 EXCEPT ![trade.party2] = b2.trader],
     settled |-> <<<<trade.party1, b1.profit>>, <<trade.party2, b2.profit>>>>,
     exit |-> b2.exit]

\* after the first bookkeep call b1, on party1
SettleFirst(trs1, trade, time, b1) ==
    IF b1.exit # ""
    THEN [traders |-> trs1, settled |-> <<<<trade.party1, b1.profit>>>>, exit |-> b1.exit]
    ELSE SettleSecond(trs1, trade, b1, bookkeep(trs1[trade.party2], trade, time))

\* the two bookkeep calls after a trade, party1 then party2:
\* returns [traders, settled, exit], settled the <<tid, profit>> pairs computed
Settle(trs, trade, time) ==
    SettleFirst([trs EXCEPT ![trade.party1] = bookkeep(trs[trade.party1], trade, time).trader],
                trade, time, bookkeep(trs[trade.party1], trade, time))

(***************************************************************************)
(* Real numbers of the trader classes: exact fractions <<num, den>>, den > 0 *)
(***************************************************************************)
RECURSIVE GCD(_, _)
GCD(a, b) == IF b = 0 THEN a ELSE GCD(b, a % b)

Abs(x) == IF x < 0 THEN -x ELSE x

Rat(n, d) == <<n \div GCD(Abs(n), d), d \div GCD(Abs(n), d)>>
RatOfInt(i) == <<i, 1>>
\* sums over the least common denominator, products reduced crosswise first
RatAdd(x, y) ==
    Rat(x[1] * (y[2] \div GCD(x[2], y[2])) + y[1] * (x[2] \div GCD(x[2], y[2])),
        (x[2] \div GCD(x[2], y[2])) * y[2])
RatSub(x, y) == RatAdd(x, <<-y[1], y[2]>>)
RatMul(x, y) ==
    Rat((x[1] \div GCD(Abs(x[1]), y[2])) * (y[1] \div GCD(Abs(y[1]), x[2])),
        (x[2] \div GCD(Abs(y[1]), x[2])) * (y[2] \div GCD(Abs(x[1]), y[2])))
RatDivInt(x, i) == Rat(x[1], x[2] * i)
\* 1 / x for x > 0
RatInv(x) == <<x[2], x[1]>>
RatLess(x, y) == x[1] * y[2] < y[1] * x[2]
Zero == <<0, 1>>
One == <<1, 1>>
NoRat == <<0, 0>>

\* int(x): truncation toward zero
IntOf(x) == IF x[1] >= 0 THEN x[1] \div x[2] ELSE -((-x[1]) \div x[2])

\* int(round(x, 0)): to the nearest integer, halves away from zero
RoundOf(x) ==
    IF x[1] >= 0 THEN (2 * x[1] + x[2]) \div (2 * x[2])
    ELSE -((2 * (-x[1]) + x[2]) \div (2 * x[2]))

\* random.randint(a, b) for the draw r of random.random(), 0 <= r < 1
randint(a, b, r) == a + IntOf(RatMul(r, RatOfInt(b - a + 1)))

(***************************************************************************)
(* Trader subclasses: Giveaway, ZIC, Shaver, Sniper, ZIP                   *)
(***************************************************************************)
TTypes == {"GVWY", "ZIC", "SHVR", "SNPR", "ZIP"}

\* the values random.random() takes in the model
Randoms == {<<0, 1>>, <<1, 2>>, <<7, 8>>}

\* the fraction of the session left when a trader is asked for a quote
Countdowns == {<<1, 10>>, <<1, 5>>, <<1, 1>>}

\* the four draws of Trader_ZIP.__init__: beta, momntm, margin_buy, margin_sell
ZIPDraws == {<<Zero, Zero, Zero, Zero>>, <<<<3, 8>>, <<5, 8>>, <<2, 3>>, <<2, 3>>>>}

\* populate_market: a trader of class Giveaway, ZIC, Shaver or Sniper
Trader_Typed(ttype, tid, balance, time) ==
    Trader(tid, balance, time) @@ [ttype |-> ttype]

\* Trader_ZIP.__init__ for the draws d of random.random()
Trader_ZIP(tid, balance, time, d) ==
    Trader(tid, balance, time) @@
    [ttype |-> "ZIP", job |-> "None", active |-> FALSE, prev_change |-> Zero,
     beta |-> RatAdd(<<1, 10>>, RatMul(<<4, 10>>, d[1])),
     momntm |-> RatMul(<<1, 10>>, d[2]),
     ca |-> <<1, 20>>, cr |-> <<1, 20>>, margin |-> NoRat,
     margin_buy |-> RatSub(Zero, RatAdd(<<1, 20>>, RatMul(<<3, 10>>, d[3]))),
     margin_sell |-> RatAdd(<<1, 20>>, RatMul(<<3, 10>>, d[4])),
     price |-> None, limit |-> None,
     prev_best_bid_p |-> None, prev_best_bid_q |-> None,
     prev_best_ask_p |-> None, prev_best_ask_q |-> None]

\* the quote a getorder builds and stores as lastquote: [trader, order]
Quoted(tr, quoteprice, time, lob) ==
    [trader |-> [tr EXCEPT !.lastquote = Order(tr.tid, tr.orders[1].otype, quoteprice,
                                               tr.orders[1].qty, time, lob.QID)],
     order |-> Order(tr.tid, tr.orders[1].otype, quoteprice, tr.orders[1].qty, time, lob.QID)]

NotQuoted(tr) == [trader |-> tr, order |-> NoOrder]

Giveaway_getorder(tr, time, countdown, lob) ==
    IF Len(tr.orders) < 1 THEN NotQuoted(tr)
    ELSE Quoted(tr, tr.orders[1].price, time, lob)

\* a zero-intelligence trader that ignores its limit price
ZIC_getorder_unconstrained(tr, time, countdown, lob, r) ==
    IF Len(tr.orders) < 1 THEN NotQuoted(tr)
    ELSE Quoted(tr, randint(lob.bids.worst, lob.asks.worst, r), time, lob)

ZIC_getorder(tr, time, countdown, lob, r) ==
    IF Len(tr.orders) < 1 THEN NotQuoted(tr)
    ELSE IF tr.orders[1].otype = "Bid"
    THEN Quoted(tr, randint(lob.bids.worst, tr.orders[1].price, r), time, lob)
    ELSE Quoted(tr, randint(tr.orders[1].price, lob.asks.worst, r), time, lob)

\* the price of a Shaver or Sniper that improves the best price of its side by
\* shave, stops at its limit price, and quotes the worst price on an empty side
ShavedPrice(otype, limitprice, lob, shave) ==
    IF otype = "Bid"
    THEN IF lob.bids.n > 0
         THEN IF lob.bids.best + shave > limitprice THEN limitprice
              ELSE lob.bids.best + shave
         ELSE lob.bids.worst
    ELSE IF lob.asks.n > 0
         THEN IF lob.asks.best - shave < limitprice THEN limitprice
              ELSE lob.asks.best - shave
         ELSE lob.asks.worst

\* a Shaver that does not stop at its limit price
Shaver_getorder_nolimit(tr, time, countdown, lob) ==
    IF Len(tr.orders) < 1 THEN NotQuoted(tr)
    ELSE Quoted(tr, IF tr.orders[1].otype = "Bid"
                    THEN (IF lob.bids.n > 0 THEN lob.bids.best + 1 ELSE lob.bids.worst)
                    ELSE (IF lob.asks.n > 0 THEN lob.asks.best - 1 ELSE lob.asks.worst),
                time, lob)

Shaver_getorder(tr, time, countdown, lob) ==
    IF Len(tr.orders) < 1 THEN NotQuoted(tr)
    ELSE Quoted(tr, ShavedPrice(tr.orders[1].otype, tr.orders[1].price, lob, 1), time, lob)

lurk_threshold == <<1, 5>>
shavegrowthrate == 3

\* shave = int(1.0 / (0.01 + countdown / (shavegrowthrate * lurk_threshold)))
SniperShave(countdown) ==
    IntOf(RatInv(RatAdd(<<1, 100>>,
                        RatMul(countdown,
                               RatInv(RatMul(RatOfInt(shavegrowthrate), lurk_threshold))))))

Sniper_getorder(tr, time, countdown, lob) ==
    IF Len(tr.orders) < 1 \/ RatLess(lurk_threshold, countdown) THEN NotQuoted(tr)
    ELSE Quoted(tr, ShavedPrice(tr.orders[1].otype, tr.orders[1].price, lob,
                                SniperShave(countdown)), time, lob)

\* the ZIP trader at work on its customer order, margin chosen for the job
ZIPWorking(tr, margin) ==
    [tr EXCEPT !.active = TRUE, !.limit = tr.orders[1].price, !.job = tr.orders[1].otype,
               !.margin = margin,
               !.price = IntOf(RatMul(RatOfInt(tr.orders[1].price), RatAdd(One, margin)))]

\* a ZIP trader that takes the seller's margin when buying and the buyer's when selling
ZIP_getorder_swapped(tr, time, countdown, lob) ==
    IF Len(tr.orders) < 1 THEN NotQuoted([tr EXCEPT !.active = FALSE])
    ELSE Quoted(ZIPWorking(tr, IF tr.orders[1].otype = "Bid" THEN tr.margin_sell
                               ELSE tr.margin_buy),
                ZIPWorking(tr, IF tr.orders[1].otype = "Bid" THEN tr.margin_sell
                               ELSE tr.margin_buy).price, time, lob)

ZIP_getorder(tr, time, countdown, lob) ==
    IF Len(tr.orders) < 1 THEN NotQuoted([tr EXCEPT !.active = FALSE])
    ELSE Quoted(ZIPWorking(tr, IF tr.orders[1].otype = "Bid" THEN tr.margin_buy
                               ELSE tr.margin_sell),
                ZIPWorking(tr, IF tr.orders[1].otype = "Bid" THEN tr.margin_buy
                               ELSE tr.margin_sell).price, time, lob)

(***************************************************************************)
(* Trader subclasses: GDX and AA                                           *)
(***************************************************************************)
\* a price as the Order holds it: floats that are whole numbers equal the integer
IsWhole(x) == x[2] = 1
PriceOf(x) == IF IsWhole(x) THEN x[1] ELSE x

\* Trader_GDX.__init__ ; the price and the table of values are kept as fractions
holdings == 10
remaining_offer_ops == 10
gamma == <<1, 10>>

Trader_GDX(tid, balance, time) ==
    Trader(tid, balance, time) @@
    [ttype |-> "GDX", job |-> "None", active |-> FALSE, limit |-> None,
     outstanding_bids |-> <<>>, outstanding_asks |-> <<>>,
     accepted_asks |-> <<>>, accepted_bids |-> <<>>, price |-> <<-1, 1>>,
     prev_best_bid_p |-> None, prev_best_bid_q |-> None,
     prev_best_ask_p |-> None, prev_best_ask_q |-> None,
     first_turn |-> TRUE,
     values |-> [m \in 0 .. (holdings - 1) |-> [n \in 0 .. (remaining_offer_ops - 1) |-> Zero]]]

\* the number of entries of a list of prices that are <= price, and >= price
CountLE(ps, price) == Len(SelectSeq(ps, LAMBDA p : ~RatLess(price, RatOfInt(p))))
CountGE(ps, price) == Len(SelectSeq(ps, LAMBDA p : ~RatLess(RatOfInt(p), price)))

\* [thing[0] for thing in self.outstanding_bids]
PricesOf(view) == [i \in 1 .. Len(view) |-> view[i][1]]

\* the quotient of two counts: the operands are ints
Believed(num, rest) == IF num + rest = 0 THEN 0 ELSE num \div (num + rest)

belief_sell(tr, price) ==
    Believed(CountGE(tr.accepted_asks, price) + CountGE(PricesOf(tr.outstanding_bids), price),
             CountLE(PricesOf(tr.outstanding_asks), price))

belief_buy(tr, price) ==
    Believed(CountLE(tr.accepted_bids, price) + CountLE(PricesOf(tr.outstanding_asks), price),
             CountGE(PricesOf(tr.outstanding_bids), price))

\* the expected return of bidding price, and of asking price
ThingBid(tr, m, n, price) ==
    RatAdd(RatMul(RatOfInt(belief_buy(tr, price)),
                  RatAdd(RatSub(RatOfInt(tr.limit), price),
                         RatMul(gamma, tr.values[m - 1][n - 1]))),
           RatSub(One, RatMul(RatMul(RatOfInt(belief_buy(tr, price)), gamma),
                              tr.values[m][n - 1])))

ThingAsk(tr, m, n, price) ==
    RatAdd(RatMul(RatOfInt(belief_sell(tr, price)),
                  RatAdd(RatSub(price, RatOfInt(tr.limit)),
                         RatMul(gamma, tr.values[m - 1][n - 1]))),
           RatSub(One, RatMul(RatMul(RatOfInt(belief_sell(tr, price)), gamma),
                              tr.values[m][n - 1])))

Thing(tr, m, n, price) ==
    IF tr.job = "Bid" THEN ThingBid(tr, m, n, price) ELSE ThingAsk(tr, m, n, price)

\* the search state of calc_p_bid / calc_p_ask
Search(best_return, best, second_best_return, second_best) ==
    [best_return |-> best_return, best |-> best,
     second_best_return |-> second_best_return, second_best |-> second_best]

RECURSIVE CoarseSearch(_, _, _, _, _)
\* the loop 'for i in [x * 2 for x in range(int(self.limit / 2))]' from x on;
\* the candidate is i for a bid and i + self.limit for an ask
CoarseSearch(tr, m, n, x, st) ==
    IF x >= tr.limit \div 2 THEN st
    ELSE CoarseSearch(tr, m, n, x + 1,
             IF RatLess(st.best_return,
                        Thing(tr, m, n, RatOfInt(IF tr.job = "Bid" THEN 2 * x
                                                 ELSE 2 * x + tr.limit)))
             THEN Search(Thing(tr, m, n, RatOfInt(IF tr.job = "Bid" THEN 2 * x
                                                  ELSE 2 * x + tr.limit)),
                         RatOfInt(IF tr.job = "Bid" THEN 2 * x ELSE 2 * x + tr.limit),
                         st.best_return, st.best)
             ELSE st)

\* 'always best bid largest one'
Swapped(st) ==
    IF RatLess(st.best, st.second_best)
    THEN [st EXCEPT !.best = st.second_best, !.second_best = st.best]
    ELSE st

RECURSIVE FineSearch(_, _, _, _, _, _)
\* the loop 'for i in [x * 0.05 for x in range(int(second_best), int(best))]'
\* from x on, up to last (the range is fixed when the loop starts)
FineSearch(tr, m, n, x, last, st) ==
    IF x >= last THEN st
    ELSE FineSearch(tr, m, n, x + 1, last,
             IF RatLess(st.best_return,
                        Thing(tr, m, n, RatAdd(Rat(x, 20), st.second_best)))
             THEN [st EXCEPT !.best_return =
                                 Thing(tr, m, n, RatAdd(Rat(x, 20), st.second_best)),
                             !.best = RatAdd(Rat(x, 20), st.second_best)]
             ELSE st)

Refined(tr, m, n, st) ==
    FineSearch(tr, m, n, IntOf(st.second_best), IntOf(st.best), st).best

calc_p_bid(tr, m, n) ==
    Refined(tr, m, n, Swapped(CoarseSearch(tr, m, n, 0, Search(Zero, Zero, Zero, Zero))))

calc_p_ask(tr, m, n) ==
    Refined(tr, m, n,
            Swapped(CoarseSearch(tr, m, n, 0,
                                 Search(Zero, RatOfInt(tr.limit), Zero, RatOfInt(tr.limit)))))

\* the trader at work on its customer order
GDXWorking(tr) ==
    [tr EXCEPT !.active = TRUE, !.limit = tr.orders[1].price, !.job = tr.orders[1].otype]

GDXPriced(tr) ==
    [tr EXCEPT !.price = IF tr.job = "Bid"
                         THEN calc_p_bid(tr, holdings - 1, remaining_offer_ops - 1)
                         ELSE calc_p_ask(tr, holdings - 1, remaining_offer_ops - 1)]

\* the end of getorder: the order is built and stored, and returned only after
\* the first respond
GDXReturned(q, first_turn) ==
    [trader |-> q.trader,
     order |-> IF first_turn \/ q.trader.price = <<-1, 1>> THEN NoOrder ELSE q.order,
     exit |-> "", whole |-> IsWhole(q.trader.price)]

GDX_getorder(tr, time, countdown, lob) ==
    IF Len(tr.orders) < 1
    THEN [trader |-> [tr EXCEPT !.active = FALSE], order |-> NoOrder, exit |-> "",
          whole |-> TRUE]
    ELSE GDXReturned(Quoted(GDXPriced(GDXWorking(tr)),
                            PriceOf(GDXPriced(GDXWorking(tr)).price), time, lob),
                     tr.first_turn)

\* a real number the model does not compute: a result of math.exp, math.log or
\* math.sqrt that is not exact, and everything calculated from one
SomeReal == <<1, 0>>
IsExact(x) == x[2] # 0
RealAdd(x, y) == IF IsExact(x) /\ IsExact(y) THEN RatAdd(x, y) ELSE SomeReal
RealSub(x, y) == IF IsExact(x) /\ IsExact(y) THEN RatSub(x, y) ELSE SomeReal
RealMul(x, y) == IF IsExact(x) /\ IsExact(y) THEN RatMul(x, y) ELSE SomeReal
RealNeg(x) == IF IsExact(x) THEN <<-x[1], x[2]>> ELSE SomeReal

\* (math.exp(r * t) - 1) / (math.exp(t) - 1) for t # 0: 0 when r is 0
ExpRatio(r) == IF r = Zero THEN Zero ELSE SomeReal

\* the draws of Trader_AA.__init__: short_term_learning_rate, long_term_learning_rate,
\* buy_r, sell_r
AADraws == {<<Zero, Zero, Zero, Zero>>}
marketMax == bse_sys_maxprice
offer_change_rate == 3
r_shout_change_relative == <<1, 20>>
r_shout_change_absolute == <<1, 20>>
moving_average_window_size == 5
moving_average_weight_decay == <<19, 20>>

\* Trader_AA.__init__ ; smiths_alpha is left out: it feeds calcTheta only
Trader_AA(tid, balance, time, d) ==
    Trader(tid, balance, time) @@
    [ttype |-> "AA", limit |-> None, job |-> "None", active |-> FALSE,
     short_term_learning_rate |-> RatAdd(<<1, 10>>, RatMul(<<4, 10>>, d[1])),
     long_term_learning_rate |-> RatAdd(<<1, 10>>, RatMul(<<4, 10>>, d[2])),
     theta |-> <<-2, 1>>,
     previous_transactions |-> <<>>, estimated_equilibrium |-> <<>>,
     prev_best_bid_p |-> None, prev_best_bid_q |-> None,
     prev_best_ask_p |-> None, prev_best_ask_q |-> None,
     r_shout |-> NoRat, buy_target |-> NoRat, sell_target |-> NoRat,
     buy_r |-> RatSub(Zero, RatMul(<<3, 10>>, d[3])),
     sell_r |-> RatSub(Zero, RatMul(<<3, 10>>, d[4]))]

\* p of calcTarget: the last estimate of the equilibrium, nudged off the limit,
\* or the initial guess 20% inside the limit
TargetEq(tr) ==
    IF Len(tr.estimated_equilibrium) > 0
    THEN IF RatOfInt(tr.limit) = tr.estimated_equilibrium[Len(tr.estimated_equilibrium)]
         THEN RatMul(tr.estimated_equilibrium[Len(tr.estimated_equilibrium)],
                     <<1000001, 1000000>>)
         ELSE tr.estimated_equilibrium[Len(tr.estimated_equilibrium)]
    ELSE IF tr.job = "Bid" THEN RatMul(RatOfInt(tr.limit), <<4, 5>>)
    ELSE RatMul(RatOfInt(tr.limit), <<6, 5>>)

\* the value the BUYER branch of calcTarget gives buy_target, before the clamp
BuyerTargetValue(tr, l, p) ==
    IF ~IsExact(tr.buy_r) THEN SomeReal
    ELSE IF ~RatLess(p, l)
    THEN IF ~RatLess(tr.buy_r, Zero) THEN l
         ELSE RealMul(l, RealSub(One, ExpRatio(RealNeg(tr.buy_r))))
    ELSE IF ~RatLess(tr.buy_r, Zero)
    THEN RealAdd(p, RealMul(RatSub(l, p), ExpRatio(tr.buy_r)))
    ELSE RealMul(p, RealSub(One, ExpRatio(RealNeg(tr.buy_r))))

\* the value the SELLER branch of calcTarget computes: the branch tests buy_r,
\* takes its exponentials from sell_r and assigns the result to buy_target
SellerTargetValue(tr, l, p) ==
    IF ~IsExact(tr.buy_r) THEN SomeReal
    ELSE IF ~RatLess(p, l)
    THEN IF ~RatLess(tr.buy_r, Zero) THEN l
         ELSE RealAdd(l, RealMul(RatSub(RatOfInt(marketMax), l),
                                 ExpRatio(RealNeg(tr.sell_r))))
    ELSE IF ~RatLess(tr.buy_r, Zero)
    THEN RealAdd(l, RealMul(RatSub(p, l), RealSub(One, ExpRatio(tr.sell_r))))
    ELSE RealAdd(p, RealMul(RatSub(RatOfInt(marketMax), p),
                            ExpRatio(RealNeg(tr.sell_r))))

\* 'if self.buy_target > l: self.buy_target = l'
ClampedAbove(x, l) == IF IsExact(x) /\ RatLess(l, x) THEN l ELSE x

\* 'if self.sell_target < l: self.sell_target = l'; None orders below every number
ClampedBelow(x, l) == IF x = NoRat \/ (IsExact(x) /\ RatLess(x, l)) THEN l ELSE x

calcTarget(tr) ==
    IF tr.job = "Bid"
    THEN [tr EXCEPT !.buy_target =
             ClampedAbove(BuyerTargetValue(tr, RatOfInt(tr.limit), TargetEq(tr)),
                          RatOfInt(tr.limit))]
    ELSE IF tr.job = "Ask"
    THEN [tr EXCEPT !.buy_target = SellerTargetValue(tr, RatOfInt(tr.limit), TargetEq(tr)),
                    !.sell_target = ClampedBelow(tr.sell_target, RatOfInt(tr.limit))]
    ELSE tr

\* calcTarget on an interpreter that does not order None: the comparison
\* self.sell_target < l raises TypeError after buy_target was assigned
calcTarget_raises(tr) == tr.job = "Ask" /\ tr.sell_target = NoRat

calcTarget_interrupted(tr) ==
    [tr EXCEPT !.buy_target = SellerTargetValue(tr, RatOfInt(tr.limit), TargetEq(tr))]

AAWorking(tr) ==
    [tr EXCEPT !.active = TRUE, !.limit = tr.orders[1].price, !.job = tr.orders[1].otype]

o_bid(tr) == IF tr.prev_best_bid_p = None THEN Zero ELSE RatOfInt(tr.prev_best_bid_p)
o_ask(tr) == IF tr.prev_best_ask_p = None THEN RatOfInt(marketMax)
             ELSE RatOfInt(tr.prev_best_ask_p)

RatMin(x, y) == IF RatLess(y, x) THEN y ELSE x
RatMax(x, y) == IF RatLess(x, y) THEN y ELSE x

\* the step from a toward b scaled by offer_change_rate
Stepped(a, b) == RatAdd(a, RatDivInt(RatSub(b, a), offer_change_rate))

\* quoteprice of a buyer that quotes, t the trader after calcTarget
AABidPrice(t) ==
    IF Len(t.previous_transactions) > 0
    THEN Stepped(o_bid(t),
                 RatMin(RatOfInt(t.limit),
                        RatAdd(RatMul(RatAdd(One, r_shout_change_relative), o_ask(t)),
                               r_shout_change_absolute)))
    ELSE IF ~RatLess(t.buy_target, o_ask(t)) THEN o_ask(t)
    ELSE Stepped(o_bid(t), t.buy_target)

\* quoteprice of a seller that quotes
AAAskPrice(t) ==
    IF Len(t.previous_transactions) > 0
    THEN Stepped(o_ask(t),
                 RatMax(RatOfInt(t.limit),
                        RatSub(RatMul(RatSub(One, r_shout_change_relative), o_bid(t)),
                               r_shout_change_absolute)))
    ELSE IF ~RatLess(o_bid(t), t.sell_target) THEN o_bid(t)
    ELSE Stepped(o_ask(t), t.sell_target)

\* an AA trader that declines on the best price of the other side
AADeclines_opposite(t) ==
    \/ t.job = "Bid" /\ RatLess(RatOfInt(t.limit), o_ask(t))
    \/ t.job = "Ask" /\ RatLess(o_bid(t), RatOfInt(t.limit))

\* the buyer returns None when its limit does not exceed the best bid it
\* remembers, the seller when its limit is not below the best ask it remembers
AADeclines(t) ==
    \/ t.job = "Bid" /\ ~RatLess(o_bid(t), RatOfInt(t.limit))
    \/ t.job = "Ask" /\ ~RatLess(RatOfInt(t.limit), o_ask(t))

\* the part of getorder after calcTarget
AAPrice(t) ==
    IF Len(t.previous_transactions) = 0
       /\ ~IsExact(IF t.job = "Bid" THEN t.buy_target ELSE t.sell_target)
    THEN SomeReal
    ELSE IF t.job = "Bid" THEN AABidPrice(t) ELSE AAAskPrice(t)

AAQuote(t, time, lob) ==
    IF AADeclines(t) THEN [trader |-> t, order |-> NoOrder, exit |-> "", whole |-> TRUE]
    ELSE Quoted(t, PriceOf(AAPrice(t)), time, lob)
         @@ [exit |-> "", whole |-> IsWhole(AAPrice(t))]

AA_getorder(tr, time, countdown, lob, raises) ==
    IF Len(tr.orders) < 1
    THEN [trader |-> [tr EXCEPT !.active = FALSE], order |-> NoOrder, exit |-> "",
          whole |-> TRUE]
    ELSE IF calcTarget_raises(AAWorking(tr)) /\ raises
    THEN [trader |-> calcTarget_interrupted(AAWorking(tr)), order |-> NoOrder,
          exit |-> "TypeError", whole |-> TRUE]
    ELSE AAQuote(calcTarget(AAWorking(tr)), time, lob)

\* traders[tid].getorder(time, time_left, lob): [trader, order]
TypedGetorder(tr, time, countdown, lob, r) ==
    IF tr.ttype = "GVWY" THEN Giveaway_getorder(tr, time, countdown, lob)
    ELSE IF tr.ttype = "ZIC" THEN ZIC_getorder(tr, time, countdown, lob, r)
    ELSE IF tr.ttype = "SHVR" THEN Shaver_getorder(tr, time, countdown, lob)
    ELSE IF tr.ttype = "SNPR" THEN Sniper_getorder(tr, time, countdown, lob)
    ELSE ZIP_getorder(tr, time, countdown, lob)

(***************************************************************************)
(* Trader_ZIP.respond                                                      *)
(***************************************************************************)
\* a < b and a > b where a may be None: None orders below every number
NoneLess(a, b) == a = None \/ a < b
NoneGreater(a, b) == a # None /\ a > b

target_up(tr, price, r1, r2) ==
    RoundOf(RatAdd(RatMul(RatOfInt(price), RatAdd(One, RatMul(tr.cr, r2))),
                   RatMul(tr.ca, r1)))

target_down(tr, price, r1, r2) ==
    RoundOf(RatSub(RatMul(RatOfInt(price), RatSub(One, RatMul(tr.cr, r2))),
                   RatMul(tr.ca, r1)))

willing_to_trade(tr, price) ==
    \/ tr.job = "Bid" /\ tr.active /\ tr.price >= price
    \/ tr.job = "Ask" /\ tr.active /\ tr.price <= price

\* change = ((1.0 - momntm) * (beta * diff)) + (momntm * prev_change)
Change(tr, price) ==
    RatAdd(RatMul(RatSub(One, tr.momntm), RatMul(tr.beta, RatOfInt(price - tr.price))),
           RatMul(tr.momntm, tr.prev_change))

\* newmargin = ((self.price + change) / self.limit) - 1.0
NewMargin(tr, change) ==
    RatSub(RatDivInt(RatAdd(RatOfInt(tr.price), change), tr.limit), One)

\* the end of profit_alter: the price set from the limit and the margin
Repriced(tr) ==
    [tr EXCEPT !.price = RoundOf(RatMul(RatOfInt(tr.limit), RatAdd(One, tr.margin)))]

\* a profit_alter that installs every new margin
Altered_unchecked(tr, change, newmargin) ==
    Repriced(IF tr.job = "Bid"
             THEN [tr EXCEPT !.prev_change = change, !.margin_buy = newmargin,
                             !.margin = newmargin]
             ELSE [tr EXCEPT !.prev_change = change, !.margin_sell = newmargin,
                             !.margin = newmargin])

\* profit_alter once change and newmargin are computed
Altered(tr, change, newmargin) ==
    Repriced(IF tr.job = "Bid"
             THEN IF RatLess(newmargin, Zero)
                  THEN [tr EXCEPT !.prev_change = change, !.margin_buy = newmargin,
                                  !.margin = newmargin]
                  ELSE [tr EXCEPT !.prev_change = change]
             ELSE IF RatLess(Zero, newmargin)
                  THEN [tr EXCEPT !.prev_change = change, !.margin_sell = newmargin,
                                  !.margin = newmargin]
                  ELSE [tr EXCEPT !.prev_change = change])

profit_alter(tr, price) == Altered(tr, Change(tr, price), NewMargin(tr, Change(tr, price)))

\* what has happened on the bid LOB and on the ask LOB
lob_best_bid_q(lob) == IF lob.bids.best # None THEN lob.bids.lob[Len(lob.bids.lob)][2] ELSE None
lob_best_ask_q(lob) == IF lob.asks.best # None THEN lob.asks.lob[1][2] ELSE None

bid_improved(tr, lob) ==
    lob.bids.best # None /\ NoneLess(tr.prev_best_bid_p, lob.bids.best)

\* a respond that asks for no trade before it takes a bid for hit
bid_hit_notrade(tr, lob, trade) ==
    IF lob.bids.best # None
    THEN /\ ~NoneLess(tr.prev_best_bid_p, lob.bids.best)
         /\ \/ NoneGreater(tr.prev_best_bid_p, lob.bids.best)
            \/ /\ tr.prev_best_bid_p = lob.bids.best
               /\ NoneGreater(tr.prev_best_bid_q, lob_best_bid_q(lob))
    ELSE tr.prev_best_bid_p # None /\ lob.tape[Len(lob.tape)].type # "Cancel"

bid_hit(tr, lob, trade) ==
    IF lob.bids.best # None
    THEN /\ ~NoneLess(tr.prev_best_bid_p, lob.bids.best)
         /\ trade # NoTrade
         /\ \/ NoneGreater(tr.prev_best_bid_p, lob.bids.best)
            \/ /\ tr.prev_best_bid_p = lob.bids.best
               /\ NoneGreater(tr.prev_best_bid_q, lob_best_bid_q(lob))
    ELSE tr.prev_best_bid_p # None /\ lob.tape[Len(lob.tape)].type # "Cancel"

ask_improved(tr, lob) ==
    lob.asks.best # None /\ NoneGreater(tr.prev_best_ask_p, lob.asks.best)

\* a respond that takes every emptied ask side for a lifted one
ask_lifted_anyrecord(tr, lob, trade) ==
    IF lob.asks.best # None
    THEN /\ ~NoneGreater(tr.prev_best_ask_p, lob.asks.best)
         /\ trade # NoTrade
         /\ \/ NoneLess(tr.prev_best_ask_p, lob.asks.best)
            \/ /\ tr.prev_best_ask_p = lob.asks.best
               /\ NoneGreater(tr.prev_best_ask_q, lob_best_ask_q(lob))
    ELSE tr.prev_best_ask_p # None

ask_lifted(tr, lob, trade) ==
    IF lob.asks.best # None
    THEN /\ ~NoneGreater(tr.prev_best_ask_p, lob.asks.best)
         /\ trade # NoTrade
         /\ \/ NoneLess(tr.prev_best_ask_p, lob.asks.best)
            \/ /\ tr.prev_best_ask_p = lob.asks.best
               /\ NoneGreater(tr.prev_best_ask_q, lob_best_ask_q(lob))
    ELSE tr.prev_best_ask_p # None /\ lob.tape[Len(lob.tape)].type # "Cancel"

\* the comparisons of respond that have None on one side and a number on the
\* other: an interpreter that does not order None raises TypeError there
ComparesNone(tr, lob) ==
    \/ lob.bids.best # None /\ tr.prev_best_bid_p = None
    \/ lob.asks.best # None /\ tr.prev_best_ask_p = None

\* the target price respond aims at, or None when it leaves the margin alone
SellerTarget(tr, lob, trade, r1, r2) ==
    IF bid_hit(tr, lob, trade) \/ ask_lifted(tr, lob, trade)
    THEN IF tr.price <= trade.price THEN target_up(tr, trade.price, r1, r2)
         ELSE IF ask_lifted(tr, lob, trade) /\ tr.active /\ ~willing_to_trade(tr, trade.price)
         THEN target_down(tr, trade.price, r1, r2)
         ELSE None
    ELSE IF ask_improved(tr, lob) /\ tr.price > lob.asks.best
    THEN IF lob.bids.best # None THEN target_up(tr, lob.bids.best, r1, r2)
         ELSE lob.asks.worst
    ELSE None

BuyerTarget(tr, lob, trade, r1, r2) ==
    IF bid_hit(tr, lob, trade) \/ ask_lifted(tr, lob, trade)
    THEN IF tr.price >= trade.price THEN target_down(tr, trade.price, r1, r2)
         ELSE IF bid_hit(tr, lob, trade) /\ tr.active /\ ~willing_to_trade(tr, trade.price)
         THEN target_up(tr, trade.price, r1, r2)
         ELSE None
    ELSE IF bid_improved(tr, lob) /\ tr.price < lob.bids.best
    THEN IF lob.asks.best # None THEN target_down(tr, lob.asks.best, r1, r2)
         ELSE lob.bids.worst
    ELSE None

Target(tr, lob, trade, r1, r2) ==
    IF tr.job = "Ask" THEN SellerTarget(tr, lob, trade, r1, r2)
    ELSE IF tr.job = "Bid" THEN BuyerTarget(tr, lob, trade, r1, r2)
    ELSE None

\* the end of respond: the best LOB data remembered for the next response
Remembered(tr, lob) ==
    [tr EXCEPT !.prev_best_bid_p = lob.bids.best, !.prev_best_bid_q = lob_best_bid_q(lob),
               !.prev_best_ask_p = lob.asks.best, !.prev_best_ask_q = lob_best_ask_q(lob)]

\* a deal seen on the LOB while the call was given no trade: trade['price'] fails
DealWithoutTrade(tr, lob, trade) ==
    /\ tr.job \in OTypes
    /\ trade = NoTrade
    /\ bid_hit(tr, lob, trade) \/ ask_lifted(tr, lob, trade)

\* Trader_ZIP.respond: [trader, exit, altered], exit the exception that ends the
\* call ("" when it returns), altered whether profit_alter was called
ZIP_respond(tr, time, lob, trade, r1, r2, raises) ==
    IF ComparesNone(tr, lob) /\ raises
    THEN [trader |-> tr, exit |-> "TypeError", altered |-> FALSE]
    ELSE IF DealWithoutTrade(tr, lob, trade)
    THEN [trader |-> tr, exit |-> "TypeError", altered |-> FALSE]
    ELSE IF Target(tr, lob, trade, r1, r2) = None
    THEN [trader |-> Remembered(tr, lob), exit |-> "", altered |-> FALSE]
    ELSE [trader |-> Remembered(profit_alter(tr, Target(tr, lob, trade, r1, r2)), lob),
          exit |-> "", altered |-> TRUE]

(***************************************************************************)
(* respond of Trader_GDX and Trader_AA                                     *)
(***************************************************************************)
\* the four conclusions respond draws from the snapshot and its memory; the
\* statements are the same in Trader_ZIP, Trader_AA and Trader_GDX
Flags(tr, lob, trade) ==
    [bid_improved |-> bid_improved(tr, lob), bid_hit |-> bid_hit(tr, lob, trade),
     ask_improved |-> ask_improved(tr, lob), ask_lifted |-> ask_lifted(tr, lob, trade)]

NoFlags ==
    [bid_improved |-> FALSE, bid_hit |-> FALSE, ask_improved |-> FALSE, ask_lifted |-> FALSE]

\* the comparison of the bid side of respond has None on one side, a number on
\* the other
BidComparesNone(tr, lob) == lob.bids.best # None /\ tr.prev_best_bid_p = None

\* the bid half of Trader_GDX.respond
GDXBidsSeen(tr, lob, trade) ==
    [tr EXCEPT !.outstanding_bids = lob.bids.lob,
               !.accepted_bids = IF lob.bids.best # None /\ bid_hit(tr, lob, trade)
                                 THEN Append(tr.accepted_bids, tr.prev_best_bid_p)
                                 ELSE tr.accepted_bids]

\* the ask half
GDXAsksSeen(tr, lob, trade) ==
    [tr EXCEPT !.outstanding_asks = lob.asks.lob,
               !.accepted_asks = IF lob.asks.best # None /\ ask_lifted(tr, lob, trade)
                                 THEN Append(tr.accepted_asks, tr.prev_best_ask_p)
                                 ELSE tr.accepted_asks]

RECURSIVE Populated(_, _)
\* 'populate expected values': for n in range(1, remaining_offer_ops), for m in
\* range(1, holdings), from the k-th cell on
Populated(tr, k) ==
    IF k >= (remaining_offer_ops - 1) * (holdings - 1) \/ tr.job \notin OTypes THEN tr
    ELSE Populated(
             [tr EXCEPT !.values[1 + (k % (holdings - 1))][1 + (k \div (holdings - 1))] =
                 IF tr.job = "Bid"
                 THEN calc_p_bid(tr, 1 + (k % (holdings - 1)), 1 + (k \div (holdings - 1)))
                 ELSE calc_p_ask(tr, 1 + (k % (holdings - 1)), 1 + (k \div (holdings - 1)))],
             k + 1)

FirstTurnDone(tr) ==
    IF tr.first_turn THEN Populated([tr EXCEPT !.first_turn = FALSE], 0) ELSE tr

\* Trader_GDX.respond: [trader, exit, flags, altered]
GDX_respond(tr, time, lob, trade, raises) ==
    IF BidComparesNone(tr, lob) /\ raises
    THEN [trader |-> [tr EXCEPT !.outstanding_bids = lob.bids.lob], exit |-> "TypeError",
          flags |-> NoFlags, altered |-> FALSE]
    ELSE IF ComparesNone(tr, lob) /\ raises
    THEN [trader |-> [GDXBidsSeen(tr, lob, trade) EXCEPT !.outstanding_asks = lob.asks.lob],
          exit |-> "TypeError", flags |-> NoFlags, altered |-> FALSE]
    ELSE [trader |-> Remembered(FirstTurnDone(GDXAsksSeen(GDXBidsSeen(tr, lob, trade),
                                                          lob, trade)), lob),
          exit |-> "", flags |-> Flags(tr, lob, trade), altered |-> FALSE]

RECURSIVE RatSum(_)
RatSum(s) == IF s = <<>> THEN Zero ELSE RatAdd(Head(s), RatSum(Tail(s)))

RECURSIVE RatPow(_, _)
RatPow(x, i) == IF i = 0 THEN One ELSE RatMul(x, RatPow(x, i - 1))

\* self.moving_average_weights
moving_average_weights ==
    [i \in 1 .. moving_average_window_size |-> RatPow(moving_average_weight_decay, i - 1)]

\* the estimate calcEq appends
Equilibrium(txs) ==
    IF Len(txs) < moving_average_window_size
    THEN RatDivInt(RatSum([i \in 1 .. Len(txs) |-> RatOfInt(txs[i])]), Len(txs))
    ELSE RatMul(RatSum([i \in 1 .. moving_average_window_size |->
                           RatMul(RatOfInt(txs[Len(txs) - moving_average_window_size + i]),
                                  moving_average_weights[i])]),
                RatInv(RatSum(moving_average_weights)))

calcEq(tr) ==
    IF Len(tr.previous_transactions) = 0 THEN tr
    ELSE [tr EXCEPT !.estimated_equilibrium =
             Append(tr.estimated_equilibrium, Equilibrium(tr.previous_transactions))]

\* calcAlpha and calcTheta: desired_theta comes from math.exp of a nonzero number
calcTheta(tr) == [tr EXCEPT !.theta = SomeReal]

\* r_shout of a buyer and of a seller, p the last estimate of the equilibrium:
\* the logarithms are exact (zero) only where their argument is 1
BuyerRshout(tr, l, p) ==
    IF ~RatLess(p, l) THEN Zero
    ELSE IF tr.buy_target = p THEN Zero
    ELSE SomeReal

SellerRshout(tr, l, p) ==
    IF ~RatLess(l, p) THEN Zero
    ELSE IF tr.sell_target = p THEN Zero
    ELSE SomeReal

calcRshout(tr) ==
    IF tr.job = "Bid"
    THEN [tr EXCEPT !.r_shout =
             BuyerRshout(tr, RatOfInt(tr.limit),
                         tr.estimated_equilibrium[Len(tr.estimated_equilibrium)])]
    ELSE IF tr.job = "Ask"
    THEN [tr EXCEPT !.r_shout =
             SellerRshout(tr, RatOfInt(tr.limit),
                          tr.estimated_equilibrium[Len(tr.estimated_equilibrium)])]
    ELSE tr

\* delta of calcAgg: more aggressive or less
Delta(r_shout, more) ==
    IF more
    THEN RealAdd(RealMul(RatAdd(One, r_shout_change_relative), r_shout), r_shout_change_absolute)
    ELSE RealSub(RealMul(RatSub(One, r_shout_change_relative), r_shout), r_shout_change_absolute)

\* r + short_term_learning_rate * (delta - r)
Learned(tr, r, delta) == RealAdd(r, RealMul(tr.short_term_learning_rate, RealSub(delta, r)))

LastTransaction(tr) == RatOfInt(tr.previous_transactions[Len(tr.previous_transactions)])

calcAgg(tr) ==
    IF tr.job = "Bid"
    THEN [tr EXCEPT !.buy_r =
             IF IsExact(tr.buy_target)
             THEN Learned(tr, tr.buy_r,
                          Delta(tr.r_shout, ~RatLess(tr.buy_target, LastTransaction(tr))))
             ELSE SomeReal]
    ELSE IF tr.job = "Ask"
    THEN [tr EXCEPT !.sell_r =
             IF IsExact(tr.sell_target)
             THEN Learned(tr, tr.sell_r,
                          Delta(tr.r_shout, RatLess(LastTransaction(tr), tr.sell_target)))
             ELSE SomeReal]
    ELSE tr

\* the start of 'if deal:': the price joins previous_transactions and stands in
\* for a target that is still None
Dealt(tr, trade) ==
    [tr EXCEPT !.previous_transactions = Append(tr.previous_transactions, trade.price),
               !.sell_target = IF tr.sell_target = NoRat THEN RatOfInt(trade.price)
                               ELSE tr.sell_target,
               !.buy_target = IF tr.buy_target = NoRat THEN RatOfInt(trade.price)
                              ELSE tr.buy_target]

AALearned(tr, trade) == calcTarget(calcAgg(calcRshout(calcTheta(calcEq(Dealt(tr, trade))))))

\* Trader_AA.respond: [trader, exit, flags, altered]; the best prices are
\* remembered before the deal is looked at
AA_respond(tr, time, lob, trade, raises) ==
    IF ComparesNone(tr, lob) /\ raises
    THEN [trader |-> tr, exit |-> "TypeError", flags |-> NoFlags, altered |-> FALSE]
    ELSE IF ~(bid_hit(tr, lob, trade) \/ ask_lifted(tr, lob, trade))
    THEN [trader |-> Remembered(tr, lob), exit |-> "", flags |-> Flags(tr, lob, trade),
          altered |-> FALSE]
    ELSE IF trade = NoTrade
    THEN [trader |-> Remembered(tr, lob), exit |-> "TypeError",
          flags |-> Flags(tr, lob, trade), altered |-> FALSE]
    ELSE [trader |-> AALearned(Remembered(tr, lob), trade), exit |-> "",
          flags |-> Flags(tr, lob, trade), altered |-> TRUE]

\* traders[t].respond(time, lob, trade): Trader.respond for every class but ZIP
TypedRespond(tr, time, lob, trade, r1, r2, raises) ==
    IF tr.ttype = "ZIP" THEN ZIP_respond(tr, time, lob, trade, r1, r2, raises)
    ELSE [trader |-> respond(tr, time, lob, trade).trader, exit |-> "", altered |-> FALSE]

RECURSIVE TypedResponds(_, _, _, _, _, _, _, _, _)
\* the loop 'for t in traders' from roster position i on: [traders, exit, altered]
TypedResponds(trs, i, time, lob, trade, r1, r2, raises, altered) ==
    IF i > Len(Roster) THEN [traders |-> trs, exit |-> "", altered |-> altered]
    ELSE IF TypedRespond(trs[Roster[i]], time, lob, trade, r1, r2, raises).exit # ""
    THEN [traders |-> trs, altered |-> altered,
          exit |-> TypedRespond(trs[Roster[i]], time, lob, trade, r1, r2, raises).exit]
    ELSE TypedResponds(
             [trs EXCEPT ![Roster[i]] =
                 TypedRespond(trs[Roster[i]], time, lob, trade, r1, r2, raises).trader],
             i + 1, time, lob, trade, r1, r2, raises,
             IF TypedRespond(trs[Roster[i]], time, lob, trade, r1, r2, raises).altered
             THEN altered \cup {Roster[i]} ELSE altered)

\* getorder of any class of a market with learners: [trader, order, exit, whole],
\* whole telling whether the price of the quote is a whole number
LearnerGetorder(tr, time, countdown, lob, r, raises) ==
    IF tr.ttype = "AA" THEN AA_getorder(tr, time, countdown, lob, raises)
    ELSE IF tr.ttype = "GDX" THEN GDX_getorder(tr, time, countdown, lob)
    ELSE TypedGetorder(tr, time, countdown, lob, r) @@ [exit |-> "", whole |-> TRUE]

\* respond of any class: [trader, exit, flags, altered]
LearnerRespond(tr, time, lob, trade, r1, r2, raises) ==
    IF tr.ttype = "AA" THEN AA_respond(tr, time, lob, trade, raises)
    ELSE IF tr.ttype = "GDX" THEN GDX_respond(tr, time, lob, trade, raises)
    ELSE IF tr.ttype = "ZIP"
    THEN ZIP_respond(tr, time, lob, trade, r1, r2, raises)
         @@ [flags |-> IF ComparesNone(tr, lob) /\ raises THEN NoFlags
                       ELSE Flags(tr, lob, trade)]
    ELSE [trader |-> respond(tr, time, lob, trade).trader, exit |-> "", flags |-> NoFlags,
          altered |-> FALSE]

RECURSIVE LearnerResponds(_, _, _, _, _, _, _, _, _)
\* the loop 'for t in traders' from roster position i on, res what the calls
\* before position i made of the roster: [traders, exit, flags, returned, raised]
LearnerResponds(res, i, time, lob, trade, r1, r2, raises, call) ==
    IF i > Len(Roster) THEN res
    ELSE IF call.exit # ""
    THEN [res EXCEPT !.traders[Roster[i]] = call.trader, !.exit = call.exit,
                     !.flags[Roster[i]] = call.flags, !.raised = Roster[i]]
    ELSE LearnerResponds(
             [res EXCEPT !.traders[Roster[i]] = call.trader,
                         !.flags[Roster[i]] = call.flags,
                         !.returned = res.returned \cup {Roster[i]}],
             i + 1, time, lob, trade, r1, r2, raises,
             IF i + 1 > Len(Roster) THEN call
             ELSE LearnerRespond(IF Roster[i + 1] = Roster[i] THEN call.trader
                                 ELSE res.traders[Roster[i + 1]],
                                 time, lob, trade, r1, r2, raises))

\* the respond loop of a pass over the roster trs
LearnerBroadcast(trs, time, lob, trade, r1, r2, raises) ==
    LearnerResponds([traders |-> trs, exit |-> "", flags |-> [t \in Tids |-> NoFlags],
                     returned |-> {}, raised |-> NoTid],
                    1, time, lob, trade, r1, r2, raises,
                    LearnerRespond(trs[Roster[1]], time, lob, trade, r1, r2, raises))

(***************************************************************************)
(* State                                                                   *)
(***************************************************************************)
VARIABLES
    exchange,   \* the Exchange object: bids, asks, tape, quote_id
    time,       \* the clock: Exchange calls so far (Spec), timesteps so far (SessionSpec)
    last,       \* the last Exchange call: its arguments, the exchange before it, its result
    traders,    \* market_session: the roster, tid -> Trader
    pending_cust_orders,   \* market_session: customer orders not yet issued
    pc,         \* market_session: "loop", "done", or the fatal exit that ended the program
    tick,       \* market_session: what the last pass through the loop did
    snapshot    \* a public_data dictionary that publish_lob returned and a caller holds

vars == <<exchange, time, last, traders, pending_cust_orders, pc, tick, snapshot>>
sessionVars == <<traders, pending_cust_orders, pc, tick>>

NoCall == [op |-> "none", order |-> NoOrder, before |-> Orderbook, admitted |-> Orderbook,
           response |-> "None", trade |-> NoTrade, del1 |-> NoTid, del2 |-> NoTid]

\* no snapshot handed out yet. A held snapshot is the dictionary view plus, for
\* each of the three lists it refers to, whether that list is still the very
\* list object the Exchange uses (publish_lob stores references, not copies)
NoSnapshot ==
    [held |-> FALSE, view |-> publish_lob(Orderbook, 0),
     tape_shared |-> FALSE, bids_shared |-> FALSE, asks_shared |-> FALSE]

\* what a pass through the loop did: the kills, the selected trader, the snapshot
\* its getorder was given (seen), its quote, the trade, the bookkeep calls, the
\* roster as it was when the respond loop began (heard), the respond calls and
\* the snapshot they were given (lob)
NoTick == [kills |-> <<>>, tid |-> NoTid, order |-> NoOrder, trade |-> NoTrade,
           settled |-> <<>>, responds |-> <<>>, lob |-> publish_lob(Orderbook, 0),
           seen |-> publish_lob(Orderbook, 0), heard |-> <<>>]

\* populate_market creates every trader with balance 0.00 and birthtime 0;
\* the session starts at start_time = 0.0
Init ==
    /\ exchange = Orderbook
    /\ time = 0
    /\ last = NoCall
    /\ traders = [t \in Tids |-> Trader(t, 0, 0)]
    /\ pending_cust_orders = <<>>
    /\ pc = "loop"
    /\ tick = NoTick
    /\ snapshot = NoSnapshot

(***************************************************************************)
(* Spec: the Exchange driven by any sequence of calls                      *)
(***************************************************************************)
\* Exchange.process_order2 called with a fresh order of any trader, side and price
ProcessOrderCall(tid, otype, price) ==
    /\ time < MaxOps
    /\ \E r \in {process_order2(exchange, time, Order(tid, otype, price, 1, time, exchange.quote_id))} :
          /\ exchange' = r.exchange
          /\ last' = [op |-> "process_order2", order |-> r.order, before |-> exchange,
                      admitted |-> r.admitted, response |-> r.response, trade |-> r.trade,
                      del1 |-> r.del1, del2 |-> r.del2]
    /\ time' = time + 1

ProcessOrder(tid, otype, price) ==
    ProcessOrderCall(tid, otype, price) /\ UNCHANGED <<sessionVars, snapshot>>

\* the order objects a caller can hand to del_order for (tid, otype): the order
\* the trader has resting on that side, or an order object that is not in the book
CancelArgs(e, tid, otype) ==
    LET h == IF otype = "Bid" THEN e.bids ELSE e.asks
    IN {Order(tid, otype, bse_sys_minprice, 1, 0, None)}
          \cup (IF tid \in DictKeys(h.orders) THEN {DictGet(h.orders, tid)} ELSE {})

\* Exchange.del_order
DelOrderCall(tid, otype) ==
    /\ time < MaxOps
    /\ \E order \in CancelArgs(exchange, tid, otype) :
          /\ exchange' = del_order(exchange, time, order)
          /\ last' = [NoCall EXCEPT !.op = "del_order", !.order = order, !.before = exchange,
                                    !.admitted = exchange]
    /\ time' = time + 1

DelOrder(tid, otype) == DelOrderCall(tid, otype) /\ UNCHANGED <<sessionVars, snapshot>>

\* Exchange.tape_dump
TapeDumpCall(tmode) ==
    /\ time < MaxOps
    /\ exchange' = tape_dump(exchange, tmode)
    /\ last' = [NoCall EXCEPT !.op = "tape_dump", !.before = exchange, !.admitted = exchange]
    /\ time' = time + 1

TapeDump(tmode) == TapeDumpCall(tmode) /\ UNCHANGED <<sessionVars, snapshot>>

Next ==
    \/ \E tid \in Tids, otype \in OTypes, price \in Prices : ProcessOrder(tid, otype, price)
    \/ \E tid \in Tids, otype \in OTypes : DelOrder(tid, otype)
    \/ \E tmode \in TModes : TapeDump(tmode)

Spec == Init /\ [][Next]_vars

\* the Exchange driven by orders and cancels only: the book sides it can reach
BookNext ==
    \/ \E tid \in Tids, otype \in OTypes, price \in Prices : ProcessOrder(tid, otype, price)
    \/ \E tid \in Tids, otype \in OTypes : DelOrder(tid, otype)

BookSpec == Init /\ [][BookNext]_vars

(***************************************************************************)
(* SnapshotSpec: the Exchange and one caller that holds a published view   *)
(***************************************************************************)
\* what the holder of a snapshot writes into one of its lists
JunkRecord == [type |-> "Junk"]

\* the held snapshot after an Exchange call. tape.append works on the list
\* object in place, so a snapshot that refers to it sees the new record;
\* tape_dump in mode 'wipe' and anonymize_lob bind a fresh list to the
\* attribute, after which the snapshot's list is no longer the Exchange's
Synced(snap, after, bids_rebuilt, asks_rebuilt, tape_rebound) ==
    [snap EXCEPT !.view.tape = IF snap.tape_shared /\ ~tape_rebound THEN after.tape ELSE @,
                 !.tape_shared = @ /\ ~tape_rebound,
                 !.bids_shared = @ /\ ~bids_rebuilt,
                 !.asks_shared = @ /\ ~asks_rebuilt]

\* process_order2: book_add rebuilds the incoming order's side, and the two
\* delete_best calls of a trade rebuild both sides
SnapProcessOrder(tid, otype, price) ==
    /\ ProcessOrderCall(tid, otype, price)
    /\ snapshot' = Synced(snapshot, exchange', otype = "Bid" \/ last'.trade # NoTrade,
                          otype = "Ask" \/ last'.trade # NoTrade, FALSE)
    /\ UNCHANGED sessionVars

\* del_order: book_del rebuilds the side only when the trader has an order there
SnapDelOrder(tid, otype) ==
    /\ DelOrderCall(tid, otype)
    /\ snapshot' = Synced(snapshot, exchange',
                          otype = "Bid" /\ tid \in DictKeys(exchange.bids.orders),
                          otype = "Ask" /\ tid \in DictKeys(exchange.asks.orders), FALSE)
    /\ UNCHANGED sessionVars

SnapTapeDump(tmode) ==
    /\ TapeDumpCall(tmode)
    /\ snapshot' = Synced(snapshot, exchange', FALSE, FALSE, tmode = "wipe")
    /\ UNCHANGED sessionVars

\* Exchange.publish_lob: the caller keeps the returned dictionary, whose 'tape'
\* and 'lob' entries are the Exchange's own list objects
PublishLob ==
    /\ time < MaxOps
    /\ snapshot' = [held |-> TRUE, view |-> publish_lob(exchange, time),
                    tape_shared |-> TRUE, bids_shared |-> TRUE, asks_shared |-> TRUE]
    /\ last' = [NoCall EXCEPT !.op = "publish_lob", !.before = exchange, !.admitted = exchange]
    /\ time' = time + 1
    /\ UNCHANGED <<exchange, sessionVars>>

\* the holder appends a record to the tape list of its snapshot
MutateTape ==
    /\ time < MaxOps
    /\ snapshot.held
    /\ snapshot' = [snapshot EXCEPT !.view.tape = Append(@, JunkRecord)]
    /\ exchange' = IF snapshot.tape_shared
                   THEN [exchange EXCEPT !.tape = Append(@, JunkRecord)] ELSE exchange
    /\ last' = [NoCall EXCEPT !.op = "mutate_snapshot", !.before = exchange,
                              !.admitted = exchange]
    /\ time' = time + 1
    /\ UNCHANGED sessionVars

\* the holder appends a [price, qty] entry, for a price already listed, to the
\* depth list of one side of its snapshot
MutateDepth(otype) ==
    /\ time < MaxOps
    /\ snapshot.held
    /\ \E i \in 1 .. Len(IF otype = "Bid" THEN snapshot.view.bids.lob
                         ELSE snapshot.view.asks.lob) :
          IF otype = "Bid"
          THEN /\ snapshot' = [snapshot EXCEPT !.view.bids.lob =
                                   Append(@, <<snapshot.view.bids.lob[i][1], 1>>)]
               /\ exchange' = IF snapshot.bids_shared
                              THEN [exchange EXCEPT !.bids.lob_anon =
                                       Append(@, <<snapshot.view.bids.lob[i][1], 1>>)]
                              ELSE exchange
          ELSE /\ snapshot' = [snapshot EXCEPT !.view.asks.lob =
                                   Append(@, <<snapshot.view.asks.lob[i][1], 1>>)]
               /\ exchange' = IF snapshot.asks_shared
                              THEN [exchange EXCEPT !.asks.lob_anon =
                                       Append(@, <<snapshot.view.asks.lob[i][1], 1>>)]
                              ELSE exchange
    /\ last' = [NoCall EXCEPT !.op = "mutate_snapshot", !.before = exchange,
                              !.admitted = exchange]
    /\ time' = time + 1
    /\ UNCHANGED sessionVars

SnapshotNext ==
    \/ \E tid \in Tids, otype \in OTypes, price \in Prices : SnapProcessOrder(tid, otype, price)
    \/ \E tid \in Tids, otype \in OTypes : SnapDelOrder(tid, otype)
    \/ \E tmode \in TModes : SnapTapeDump(tmode)
    \/ PublishLob
    \/ MutateTape
    \/ \E otype \in OTypes : MutateDepth(otype)

SnapshotSpec == Init /\ [][SnapshotNext]_vars

(***************************************************************************)
(* SessionSpec: market_session                                             *)
(***************************************************************************)
\* one pass through the while loop of market_session
SessionTick(issuetimes, orderprice, tid) ==
    /\ pc = "loop"
    /\ time < MaxTicks
    /\ \E c \in {customer_orders(time, traders, pending_cust_orders, issuetimes, orderprice)} :
       \E e1 \in {Kills(exchange, c.traders, time, c.cancellations)} :
       \E g \in getorder(c.traders[tid], time, publish_lob(e1, time)) :
       \E e2 \in {WriteBack(e1, g.lob)} :
          LET trs1 == [c.traders EXCEPT ![tid].lastquote = g.lastquote]
              trs2 == [trs1 EXCEPT ![tid].n_quotes = 1]
              tk == [NoTick EXCEPT !.kills = c.cancellations, !.tid = tid, !.order = g.order,
                                   !.seen = publish_lob(e1, time)]
          IN /\ pending_cust_orders' = c.new_pending
             /\ IF g.order = NoOrder
                THEN \* no quote: nothing is sent, nobody responds
                     /\ exchange' = e2
                     /\ traders' = trs1
                     /\ last' = NoCall
                     /\ tick' = tk
                     /\ pc' = "loop"
                ELSE IF BadQuote(g.order, trs1[tid]) # ""
                THEN \* sys.exit('Bad ask') or sys.exit('Bad bid')
                     /\ exchange' = e2
                     /\ traders' = trs1
                     /\ last' = NoCall
                     /\ tick' = tk
                     /\ pc' = BadQuote(g.order, trs1[tid])
                ELSE \E r \in {process_order2(e2, time, g.order)} :
                     \E s \in {IF r.trade = NoTrade
                               THEN [traders |-> trs2, settled |-> <<>>, exit |-> ""]
                               ELSE Settle(trs2, r.trade, time)} :
                     /\ last' = [op |-> "process_order2", order |-> r.order, before |-> e2,
                                 admitted |-> r.admitted, response |-> r.response,
                                 trade |-> r.trade, del1 |-> r.del1, del2 |-> r.del2]
                     /\ IF s.exit # ""
                        THEN \* the program ends inside bookkeep
                             /\ exchange' = r.exchange
                             /\ traders' = s.traders
                             /\ tick' = [tk EXCEPT !.trade = r.trade, !.settled = s.settled]
                             /\ pc' = s.exit
                        ELSE \* traders respond to whatever happened
                             \E rs \in {Responds(s.traders, 1, time,
                                                 publish_lob(r.exchange, time), r.trade, <<>>)} :
                             /\ exchange' = WriteBack(r.exchange, rs.lob)
                             /\ traders' = rs.traders
                             /\ tick' = [tk EXCEPT !.trade = r.trade, !.settled = s.settled,
                                                   !.responds = rs.calls,
                                                   !.heard = s.traders,
                                                   !.lob = publish_lob(r.exchange, time)]
                             /\ pc' = "loop"
    /\ time' = NextTime(time)
    /\ UNCHANGED snapshot

\* the loop ends when time reaches endtime
SessionEnd ==
    /\ pc = "loop"
    /\ ~(time < MaxTicks)
    /\ pc' = "done"
    /\ UNCHANGED <<exchange, time, last, traders, pending_cust_orders, tick, snapshot>>

\* the random draws of customer_orders: made only when a new pending list is built
Draws(pending) ==
    IF Len(pending) < 1
    THEN IssueTimes \X [Tids -> Prices]
    ELSE {<<[t \in Tids |-> Interval], [t \in Tids |-> bse_sys_minprice]>>}

SessionNext ==
    \/ \E d \in Draws(pending_cust_orders), tid \in Tids : SessionTick(d[1], d[2], tid)
    \/ SessionEnd

SessionSpec == Init /\ [][SessionNext]_vars

\* the loop keeps running: nothing in a pass waits for anything outside it
SessionLiveSpec == SessionSpec /\ WF_vars(SessionNext)

(***************************************************************************)
(* StrategySpec: market_session with traders of the classes Giveaway, ZIC, *)
(* Shaver, Sniper and ZIP                                                  *)
(***************************************************************************)
\* the limit prices customer_orders hands out: getorderprice clips every price
\* to bse_sys_minprice .. bse_sys_maxprice
Limits == Prices \cup {bse_sys_maxprice}

\* populate_market: the traders a roster position can hold
TypedFor(tid) ==
    {Trader_Typed(ttype, tid, 0, 0) : ttype \in TTypes \ {"ZIP"}}
        \cup {Trader_ZIP(tid, 0, 0, d) : d \in ZIPDraws}

NoQuote ==
    [tid |-> NoTid, order |-> NoOrder, trade |-> NoTrade, customer |-> NoOrder,
     ttype |-> "None", countdown |-> One, seen |-> publish_lob(Orderbook, 0),
     altered |-> {}]

StrategyInit ==
    /\ exchange = Orderbook
    /\ time = 0
    /\ last = NoCall
    /\ traders \in {f \in [Tids -> UNION {TypedFor(t) : t \in Tids}] :
                       \A t \in Tids : f[t].tid = t}
    /\ pending_cust_orders = <<>>
    /\ pc = "loop"
    /\ tick = NoQuote
    /\ snapshot = NoSnapshot

\* customer_orders issuing one order to trader tid, and the kill that follows
\* in market_session when the trader answers LOB_Cancel
CustomerOrder(tid, limit) ==
    /\ pc = "loop"
    /\ time < MaxRounds
    /\ \E a \in {Trader_add_order(traders[tid],
                    Order(tid, IF tid \in Buyers THEN "Bid" ELSE "Ask", limit, 1, time, None))} :
          /\ exchange' = IF a.response = "LOB_Cancel"
                         THEN Kills(exchange, traders, time, <<tid>>) ELSE exchange
          /\ traders' = [traders EXCEPT ![tid] = a.trader]
    /\ last' = NoCall
    /\ tick' = NoQuote
    /\ time' = time + 1
    /\ UNCHANGED <<pending_cust_orders, pc, snapshot>>

\* the pass after process_order2 returned r: bookkeep, then every trader responds
StrategySettled(tq, trs2, r, r1, r2, raises) ==
    \E s \in {IF r.trade = NoTrade THEN [traders |-> trs2, settled |-> <<>>, exit |-> ""]
              ELSE Settle(trs2, r.trade, time)} :
       IF s.exit # ""
       THEN /\ traders' = s.traders
            /\ tick' = [tq EXCEPT !.trade = r.trade]
            /\ pc' = s.exit
       ELSE \E rs \in {TypedResponds(s.traders, 1, time, publish_lob(r.exchange, time),
                                     r.trade, r1, r2, raises, {})} :
            /\ traders' = rs.traders
            /\ tick' = [tq EXCEPT !.trade = r.trade, !.altered = rs.altered]
            /\ pc' = IF rs.exit # "" THEN rs.exit ELSE "loop"

\* one pass through the while loop of market_session in which trader tid is
\* asked for a quote; countdown is time_left, r the draw of its getorder, r1 and
\* r2 the draws of target_up / target_down, raises whether the interpreter
\* refuses to order None
StrategyTick(tid, countdown, r, r1, r2, raises) ==
    /\ pc = "loop"
    /\ time < MaxRounds
    /\ \E g \in {TypedGetorder(traders[tid], time, countdown, publish_lob(exchange, time), r)} :
          LET trs1 == [traders EXCEPT ![tid] = g.trader]
              tq == [NoQuote EXCEPT !.tid = tid, !.order = g.order,
                                    !.customer = IF Len(traders[tid].orders) > 0
                                                 THEN traders[tid].orders[1] ELSE NoOrder,
                                    !.ttype = traders[tid].ttype, !.countdown = countdown,
                                    !.seen = publish_lob(exchange, time)]
          IN IF g.order = NoOrder
             THEN /\ exchange' = exchange
                  /\ traders' = trs1
                  /\ last' = NoCall
                  /\ tick' = tq
                  /\ pc' = "loop"
             ELSE IF BadQuote(g.order, trs1[tid]) # ""
             THEN /\ exchange' = exchange
                  /\ traders' = trs1
                  /\ last' = NoCall
                  /\ tick' = tq
                  /\ pc' = BadQuote(g.order, trs1[tid])
             ELSE \E p \in {process_order2(exchange, time, g.order)} :
                  /\ exchange' = p.exchange
                  /\ last' = [op |-> "process_order2", order |-> p.order, before |-> exchange,
                              admitted |-> p.admitted, response |-> p.response,
                              trade |-> p.trade, del1 |-> p.del1, del2 |-> p.del2]
                  /\ StrategySettled(tq, [trs1 EXCEPT ![tid].n_quotes = 1], p, r1, r2, raises)
    /\ time' = time + 1
    /\ UNCHANGED <<pending_cust_orders, snapshot>>

\* the draws a pass makes: time_left matters to a Sniper, the draw of getorder
\* to a ZIC trader, the draws of respond to a market with a ZIP trader in it
CountdownsOf(tr) == IF tr.ttype = "SNPR" THEN Countdowns ELSE {One}
GetorderDraws(tr) == IF tr.ttype = "ZIC" THEN Randoms ELSE {Zero}
RespondDraws == IF \E t \in Tids : traders[t].ttype = "ZIP" THEN Randoms ELSE {Zero}
Interpreters == IF \E t \in Tids : traders[t].ttype = "ZIP" THEN BOOLEAN ELSE {FALSE}

StrategyNext ==
    \/ \E tid \in Tids, limit \in Limits : CustomerOrder(tid, limit)
    \/ \E tid \in Tids :
       \E countdown \in CountdownsOf(traders[tid]), r \in GetorderDraws(traders[tid]) :
       \E r1 \in RespondDraws, r2 \in RespondDraws, raises \in Interpreters :
          StrategyTick(tid, countdown, r, r1, r2, raises)

StrategySpec == StrategyInit /\ [][StrategyNext]_vars

(***************************************************************************)
(* LearnerSpec: market_session with traders of the classes ZIC, ZIP, AA    *)
(* and GDX, on either interpreter                                          *)
(***************************************************************************)
\* populate_market: the traders a roster position can hold
Learners == {"ZIP", "AA", "GDX"}

LearnerFor(tid) ==
    {Trader_Typed("ZIC", tid, 0, 0), Trader_ZIP(tid, 0, 0, <<Zero, Zero, Zero, Zero>>),
     Trader_GDX(tid, 0, 0)}
        \cup {Trader_AA(tid, 0, 0, d) : d \in AADraws}

\* what a pass through the loop did: as NoTick, and the selected trader before
\* its getorder (asked) and after it (got), whether the price of its quote is a
\* whole number, what each respond concluded (flags), the traders whose respond
\* returned and the one whose respond raised; py3 is the interpreter of the
\* run: whether it refuses to order None
NoTurn ==
    [kills |-> <<>>, tid |-> NoTid, order |-> NoOrder, trade |-> NoTrade,
     lob |-> publish_lob(Orderbook, 0), seen |-> publish_lob(Orderbook, 0),
     heard |-> <<>>, asked |-> [ttype |-> "None"], got |-> [ttype |-> "None"],
     whole |-> TRUE, flags |-> [t \in Tids |-> NoFlags], returned |-> {},
     raised |-> NoTid, py3 |-> FALSE]

LearnerInit ==
    /\ exchange = Orderbook
    /\ time = 0
    /\ last = NoCall
    /\ traders \in {f \in [Tids -> UNION {LearnerFor(t) : t \in Tids}] :
                       \A t \in Tids : f[t].tid = t}
    /\ pending_cust_orders = <<>>
    /\ pc = "loop"
    /\ tick \in {[NoTurn EXCEPT !.py3 = b] : b \in BOOLEAN}
    /\ snapshot = NoSnapshot

\* the draws of target_up and target_down in this market
LearnerDraw == Zero

\* the pass after process_order2 returned r: bookkeep, then every trader responds
LearnerSettled(tn, trs2, r) ==
    \E s \in {IF r.trade = NoTrade THEN [traders |-> trs2, settled |-> <<>>, exit |-> ""]
              ELSE Settle(trs2, r.trade, time)} :
       IF s.exit # ""
       THEN /\ traders' = s.traders
            /\ tick' = [tn EXCEPT !.trade = r.trade]
            /\ pc' = s.exit
       ELSE \E rs \in {LearnerBroadcast(s.traders, time, publish_lob(r.exchange, time),
                                        r.trade, LearnerDraw, LearnerDraw, tn.py3)} :
            /\ traders' = rs.traders
            /\ tick' = [tn EXCEPT !.trade = r.trade, !.heard = s.traders,
                                  !.lob = publish_lob(r.exchange, time),
                                  !.flags = rs.flags, !.returned = rs.returned,
                                  !.raised = rs.raised]
            /\ pc' = IF rs.exit # "" THEN rs.exit ELSE "loop"

\* one pass through the while loop of market_session; r is the draw of the
\* selected trader's getorder
LearnerTick(issuetimes, orderprice, tid, r) ==
    /\ pc = "loop"
    /\ time < MaxTurns
    /\ \E c \in {customer_orders(time, traders, pending_cust_orders, issuetimes, orderprice)} :
       \E e1 \in {Kills(exchange, c.traders, time, c.cancellations)} :
       \E g \in {LearnerGetorder(c.traders[tid], time, One, publish_lob(e1, time), r,
                                 tick.py3)} :
          LET trs1 == [c.traders EXCEPT ![tid] = g.trader]
              tn == [NoTurn EXCEPT !.kills = c.cancellations, !.tid = tid, !.order = g.order,
                                   !.seen = publish_lob(e1, time),
                                   !.asked = c.traders[tid], !.got = g.trader,
                                   !.whole = g.whole, !.py3 = tick.py3]
          IN /\ pending_cust_orders' = c.new_pending
             /\ IF g.exit # ""
                THEN \* the program ends inside getorder
                     /\ exchange' = e1
                     /\ traders' = trs1
                     /\ last' = NoCall
                     /\ tick' = [tn EXCEPT !.raised = tid]
                     /\ pc' = g.exit
                ELSE IF g.order = NoOrder
                THEN /\ exchange' = e1
                     /\ traders' = trs1
                     /\ last' = NoCall
                     /\ tick' = tn
                     /\ pc' = "loop"
                ELSE IF ~g.whole
                THEN \* a quote at a price between two whole prices: the book of
                     \* this model holds whole prices, the run is followed no further
                     /\ exchange' = e1
                     /\ traders' = trs1
                     /\ last' = NoCall
                     /\ tick' = tn
                     /\ pc' = "fraction"
                ELSE IF BadQuote(g.order, trs1[tid]) # ""
                THEN /\ exchange' = e1
                     /\ traders' = trs1
                     /\ last' = NoCall
                     /\ tick' = tn
                     /\ pc' = BadQuote(g.order, trs1[tid])
                ELSE \E p \in {process_order2(e1, time, g.order)} :
                     /\ exchange' = p.exchange
                     /\ last' = [op |-> "process_order2", order |-> p.order, before |-> e1,
                                 admitted |-> p.admitted, response |-> p.response,
                                 trade |-> p.trade, del1 |-> p.del1, del2 |-> p.del2]
                     /\ LearnerSettled(tn, [trs1 EXCEPT ![tid].n_quotes = 1], p)
    /\ time' = NextTime(time)
    /\ UNCHANGED snapshot

\* the loop ends when time reaches endtime
LearnerEnd ==
    /\ pc = "loop"
    /\ ~(time < MaxTurns)
    /\ pc' = "done"
    /\ UNCHANGED <<exchange, time, last, traders, pending_cust_orders, tick, snapshot>>

LearnerNext ==
    \/ \E d \in Draws(pending_cust_orders), tid \in Tids :
       \E r \in GetorderDraws(traders[tid]) : LearnerTick(d[1], d[2], tid, r)
    \/ LearnerEnd

LearnerSpec == LearnerInit /\ [][LearnerNext]_vars

(***************************************************************************)
(* Vocabulary of the properties                                            *)
(***************************************************************************)
Half(e, otype) == IF otype = "Bid" THEN e.bids ELSE e.asks
Opposite(otype) == IF otype = "Bid" THEN "Ask" ELSE "Bid"

\* the prices of the orders resting in a half, and the best of them, read from
\* the orders themselves rather than from the cached fields
RestingPrices(h) == {h.orders[i].price : i \in 1 .. Len(h.orders)}
BestResting(h) == IF h.booktype = "Bid" THEN SetMax(RestingPrices(h)) ELSE SetMin(RestingPrices(h))

\* the orders of a half that trader tid owns
OwnedBy(h, tid) == {i \in 1 .. Len(h.orders) : h.orders[i].tid = tid}

Processed == last.op = "process_order2"
Traded == Processed /\ last.trade # NoTrade
Rested == Processed /\ last.trade = NoTrade

\* C1: process_order2 returns a Trade if and only if, after the incoming order is
\* admitted, the opposite side holds an order and the incoming order's own price
\* crosses the best price resting there (Bid: price >= best ask, Ask: price <=
\* best bid); otherwise it returns None.
C1_TradeIffCrosses ==
    Processed =>
        LET o == last.order
            opp == Half(last.admitted, Opposite(o.otype))
            crosses == /\ Len(opp.orders) > 0
                       /\ IF o.otype = "Bid" THEN o.price >= BestResting(opp)
                          ELSE o.price <= BestResting(opp)
        IN /\ (last.trade # NoTrade) <=> crosses
           /\ last.trade # NoTrade => last.trade.type = "Trade"

\* a trade at the boundary: the incoming price equals the opposite side's best,
\* while the incoming owner's side already held another order
C1_Witness ==
    /\ Traded
    /\ last.order.price = BestResting(Half(last.before, Opposite(last.order.otype)))
    /\ Len(Half(last.before, last.order.otype).orders) > 0

\* C2: a Trade returned by process_order2 has the price of the opposite side's
\* best resting order as it stood before the call, party1 the owner of that
\* order, party2 the owner of the incoming order and qty the incoming quantity.
C2_TradeAtPassivePrice ==
    Traded =>
        LET o == last.order
            opp == Half(last.before, Opposite(o.otype))
        IN /\ Len(opp.orders) > 0
           /\ last.trade.price = BestResting(opp)
           /\ last.trade.price = opp.best_price
           /\ last.trade.party1 \in DictKeys(opp.orders)
           /\ DictGet(opp.orders, last.trade.party1).price = last.trade.price
           /\ last.trade.party1 = opp.best_tid
           /\ last.trade.party2 = o.tid
           /\ last.trade.qty = o.qty

\* a trade in which the incoming order's price differs from the trade price
C2_Witness == Traded /\ last.order.price # last.trade.price

\* C3: when process_order2 returns a Trade, exactly party1's order on the
\* opposite side and the just-admitted order of party2 have left the book: the
\* first delete_best returned party1, the second returned the incoming owner,
\* every other owner's order on both sides is as before the call, and the tape
\* has grown by exactly that Trade record.
C3_TradeRemovesExactlyTwo ==
    Traded =>
        LET o == last.order
            ownBefore == Half(last.before, o.otype)
            oppBefore == Half(last.before, Opposite(o.otype))
            own == Half(exchange, o.otype)
            opp == Half(exchange, Opposite(o.otype))
        IN /\ last.del1 = last.trade.party1
           /\ last.del2 = o.tid
           /\ last.trade.party2 = o.tid
           /\ opp.orders = DictDel(oppBefore.orders, last.trade.party1)
           /\ Len(opp.orders) = Len(oppBefore.orders) - 1
           /\ own.orders = DictDel(ownBefore.orders, o.tid)
           /\ exchange.tape = Append(last.before.tape, last.trade)
           /\ last.trade.type = "Trade"

\* a trade that left other orders resting, matched at a level that held two
C3_Witness ==
    /\ Traded
    /\ Len(Half(exchange, Opposite(last.order.otype)).orders) > 0
    /\ last.trade.price \in RestingPrices(Half(exchange, Opposite(last.order.otype)))

\* C4: when process_order2 returns None, the incoming order rests on its own
\* side as its owner's only order there, the other owners' orders on that side
\* are as before, and the opposite side and the tape are unchanged.
C4_NoTradeRests ==
    Rested =>
        LET o == last.order
            ownBefore == Half(last.before, o.otype)
            own == Half(exchange, o.otype)
        IN /\ Cardinality(OwnedBy(own, o.tid)) = 1
           /\ DictGet(own.orders, o.tid) = o
           /\ DictDel(own.orders, o.tid) = DictDel(ownBefore.orders, o.tid)
           /\ Half(exchange, Opposite(o.otype)) = Half(last.before, Opposite(o.otype))
           /\ exchange.tape = last.before.tape

\* a resting order that replaced an earlier order of its owner at another price
C4_Witness ==
    /\ Rested
    /\ last.order.tid \in DictKeys(Half(last.before, last.order.otype).orders)
    /\ DictGet(Half(last.before, last.order.otype).orders, last.order.tid).price
          # last.order.price

\* C5: FIFO tie-break. Where several owners rest at the best price of a side,
\* the order delete_best removes next (the head of the best level's list, the
\* cached best_tid) is the one with the earliest timestamp among them, and the
\* counterparty of a crossing trade had the earliest timestamp at its price.
HeadIsEarliest(h) ==
    Len(h.orders) > 0 =>
        LET level == h.lob[h.best_price].list
        IN \A i \in 1 .. Len(level) : level[1][1] <= level[i][1]

C5_FifoByTimestamp ==
    /\ HeadIsEarliest(exchange.bids)
    /\ HeadIsEarliest(exchange.asks)
    /\ Traded =>
          LET opp == Half(last.before, Opposite(last.order.otype))
          IN \A i \in 1 .. Len(opp.orders) :
                opp.orders[i].price = last.trade.price
                   => DictGet(opp.orders, last.trade.party1).time <= opp.orders[i].time

\* C6: after every completed process_order2 or del_order, if both sides hold
\* orders the best bid does not exceed the best ask (by the resting orders and by
\* the cached best prices); the book is crossed only between admission and the
\* two delete_best calls of a call that trades.
Uncrossed(e) ==
    (Len(e.bids.orders) > 0 /\ Len(e.asks.orders) > 0) =>
        /\ BestResting(e.bids) <= BestResting(e.asks)
        /\ e.bids.best_price <= e.asks.best_price

C6_BookNotCrossed ==
    /\ Uncrossed(exchange)
    /\ (Processed /\ ~Uncrossed(last.admitted)) => last.trade # NoTrade

\* both sides hold orders after a call that admitted an order without a trade
C6_Witness ==
    /\ Rested
    /\ Len(exchange.bids.orders) > 0
    /\ Len(exchange.asks.orders) > 0

\* C7: book_add answers 'Addition' exactly when the owner had no order on that
\* side before and 'Overwrite' otherwise; afterwards the side holds exactly one
\* order of that owner, the new one, and no side ever holds two orders of one
\* owner.
OnePerOwner(h) == \A t \in Tids : Cardinality(OwnedBy(h, t)) <= 1

C7_AdditionOrOverwrite ==
    /\ OnePerOwner(exchange.bids)
    /\ OnePerOwner(exchange.asks)
    /\ Processed =>
          LET o == last.order
              ownBefore == Half(last.before, o.otype)
              admitted == Half(last.admitted, o.otype)
          IN /\ last.response \in {"Addition", "Overwrite"}
             /\ (last.response = "Addition") <=> (o.tid \notin DictKeys(ownBefore.orders))
             /\ Cardinality(OwnedBy(admitted, o.tid)) = 1
             /\ DictGet(admitted.orders, o.tid) = o

\* an order that overwrote its owner's earlier order
C7_Witness == Processed /\ last.response = "Overwrite"

\* C8: after every book_add, book_del and delete_best, n_orders is the number
\* of entries of the owner map, the price keys of the index are exactly the
\* prices of the resting orders, and at each key the aggregate quantity and the
\* number of contributing entries both equal the number of owners at that price.
IndexConsistent(h) ==
    /\ h.n_orders = Len(h.orders)
    /\ DOMAIN h.lob = RestingPrices(h)
    /\ \A p \in DOMAIN h.lob :
          LET owners == {i \in 1 .. Len(h.orders) : h.orders[i].price = p}
          IN /\ h.lob[p].qty = Cardinality(owners)
             /\ Len(h.lob[p].list) = Cardinality(owners)
             /\ {h.lob[p].list[j][3] : j \in 1 .. Len(h.lob[p].list)}
                   = {h.orders[i].tid : i \in owners}

C8_IndexMatchesOwners ==
    /\ IndexConsistent(exchange.bids)
    /\ IndexConsistent(exchange.asks)
    /\ IndexConsistent(last.admitted.bids)
    /\ IndexConsistent(last.admitted.asks)

\* delete_best took one of two orders resting at the same price
C8_Witness ==
    /\ Traded
    /\ last.trade.price \in DOMAIN Half(exchange, Opposite(last.order.otype)).lob
    /\ Half(last.admitted, Opposite(last.order.otype)).lob[last.trade.price].qty = 2

\* C9: in a market session every profit bookkeep computes for a counterparty of
\* a settled trade is non-negative, and the fatal exit of bookkeep for a
\* negative profit is never reached.
C9_ProfitNonNegative ==
    /\ pc # "sys.exit"
    /\ \A i \in 1 .. Len(tick.settled) : tick.settled[i][2] >= 0

\* a trade settled on both counterparties, one of them with a positive profit
C9_Witness ==
    /\ Len(tick.settled) = 2
    /\ tick.trade # NoTrade
    /\ \E i \in 1 .. 2 : tick.settled[i][2] > 0

\* C10: no Trade record on the tape has party1 equal to party2.
C10_NoSelfTrade ==
    \A i \in 1 .. Len(exchange.tape) :
        exchange.tape[i].type = "Trade" => exchange.tape[i].party1 # exchange.tape[i].party2

\* C10 as amended: a Trade has party1 equal to party2 exactly when the incoming
\* order's owner held the order first in line at the best price of the opposite
\* side when its incoming order crossed; an owner with no order on the opposite
\* side never trades with itself.
C10_SelfTradeOnlyAgainstOwnBest ==
    Traded =>
        LET o == last.order
            opp == Half(last.before, Opposite(o.otype))
        IN /\ (last.trade.party1 = last.trade.party2) <=> (opp.best_tid = o.tid)
           /\ o.tid \notin DictKeys(opp.orders) => last.trade.party1 # last.trade.party2

\* the incoming owner has a crossed order of its own on the opposite side, but
\* another owner is first in line there: the trade is with that other owner
C10_Witness ==
    /\ Traded
    /\ last.order.tid \in DictKeys(Half(last.before, Opposite(last.order.otype)).orders)
    /\ last.trade.party1 # last.trade.party2

\* the orders resting in the book, both sides
RestingOrders(e) ==
    {e.bids.orders[i] : i \in 1 .. Len(e.bids.orders)}
        \cup {e.asks.orders[i] : i \in 1 .. Len(e.asks.orders)}

\* C11: order ids are unique and strictly increasing. Every process_order2 call
\* (resting, overwriting or trading) gives the admitted order the counter value
\* read before the call and leaves the counter one higher, so the published QID
\* is one more than the id just assigned; del_order and tape_dump leave the
\* counter alone; the counter starts at 0 and never exceeds the number of calls;
\* every resting order has an id below the counter and no two resting orders
\* share an id.
C11_IdsUniqueIncreasing ==
    /\ Processed =>
          /\ last.order.qid = last.before.quote_id
          /\ last.admitted.quote_id = last.before.quote_id + 1
          /\ exchange.quote_id = last.before.quote_id + 1
          /\ publish_lob(exchange, time).QID = last.order.qid + 1
    /\ last.op \in {"del_order", "tape_dump"} => exchange.quote_id = last.before.quote_id
    /\ time = 0 => exchange.quote_id = 0
    /\ exchange.quote_id <= time
    /\ \A o \in RestingOrders(exchange) : o.qid >= 0 /\ o.qid < exchange.quote_id
    /\ \A o1, o2 \in RestingOrders(exchange) : o1.qid = o2.qid => o1 = o2

\* an order admitted after a trade while an earlier order still rests
C11_Witness ==
    /\ Processed
    /\ \E i \in 1 .. Len(last.before.tape) : last.before.tape[i].type = "Trade"
    /\ last.order.qid = 2
    /\ last.order \in RestingOrders(exchange)

IsPrefix(s, t) == Len(s) <= Len(t) /\ SubSeq(t, 1, Len(s)) = s

\* what process_order2 does to the tape: admission appends nothing, and the
\* call appends exactly the Trade it returns, or nothing when it returns None
ProcessAppendsItsTrade ==
    Processed =>
        /\ last.admitted.tape = last.before.tape
        /\ exchange.tape = IF last.trade # NoTrade THEN Append(last.before.tape, last.trade)
                           ELSE last.before.tape

\* C12: the tape is append-only. For every Exchange operation the tape before
\* the operation is a prefix of the tape after it; process_order2 appends exactly
\* one Trade record when it returns a trade and nothing otherwise, and admission
\* alone appends nothing.
C12_TapeAppendOnly ==
    /\ last.op # "none" => IsPrefix(last.before.tape, exchange.tape)
    /\ ProcessAppendsItsTrade

\* the same with tape_dump in mode 'wipe' set aside
C12_AppendOnlyButForWipe ==
    /\ (last.op # "none" /\ ~(last.op = "tape_dump" /\ exchange.tape = <<>>))
          => IsPrefix(last.before.tape, exchange.tape)
    /\ ProcessAppendsItsTrade

\* C13: the value publish_lob returns is an isolated snapshot. Writing into the
\* tape list or a depth list of a held snapshot leaves the Exchange as it was,
\* and an Exchange call (process_order2, del_order, tape_dump) leaves a
\* snapshot that was returned earlier as it was.
C13_SnapshotIsolated ==
    [][/\ last'.op = "mutate_snapshot" => exchange' = exchange
       /\ (snapshot.held /\ last'.op \in {"process_order2", "del_order", "tape_dump"})
             => snapshot'.view = snapshot.view]_vars

Range(s) == {s[i] : i \in 1 .. Len(s)}

\* a step that is one pass through the loop of market_session
IsTick == pc = "loop" /\ time' = time + 1

\* the customer orders handed to Trader.add_order in this pass: those that leave
\* the pending list
IssuedNow ==
    IF Len(pending_cust_orders) < 1 THEN {}
    ELSE Range(pending_cust_orders) \ Range(pending_cust_orders')

\* the trader has a quote resting in the book
HasRestingQuote(e, tid) ==
    tid \in DictKeys(e.bids.orders) \cup DictKeys(e.asks.orders)

\* C14: Trader.add_order installs the new customer order in place of the old one
\* and answers 'LOB_Cancel' (the trader is put on the cancellation list) exactly
\* when the trader has a quote resting at the Exchange, 'Proceed' exactly when
\* it has none; in particular after its quote traded or was cancelled.
C14_ProceedIffNoRestingQuote ==
    [][IsTick =>
          \A o \in IssuedNow :
             /\ (o.tid \in Range(tick'.kills)) <=> HasRestingQuote(exchange, o.tid)
             /\ (\A i \in 1 .. Len(tick'.settled) : tick'.settled[i][1] # o.tid)
                   => traders'[o.tid].orders = <<o>>]_vars

\* the Cancel records a step appends to the tape
NewCancels ==
    {exchange'.tape[i] : i \in (Len(exchange.tape) + 1) .. Len(exchange'.tape)}
        \cap {rec \in Range(exchange'.tape) : rec.type = "Cancel"}

\* C15: in a session del_order is called for a trader on the cancellation list
\* only if that trader has a quote resting in the book, so every Cancel record
\* put on the tape in a pass through the loop names an order that was resting
\* in the book and that the cancel removed.
C15_CancelOnlyResting ==
    [][IsTick =>
          \A rec \in NewCancels :
             /\ rec.order \in RestingOrders(exchange)
             /\ ~HasRestingQuote(last'.before, rec.order.tid)
                   \/ last'.op = "none"]_vars

\* the traders a customer order is handed to in this pass
IssuedTids == {o.tid : o \in IssuedNow}

\* the traders whose bookkeep returned in the pass that led to this state
SettledTids ==
    IF pc = "loop" THEN {tick.settled[i][1] : i \in 1 .. Len(tick.settled)} ELSE {}

\* C16: getorder returns None whenever the trader has no pending customer
\* order: a trader that returns a quote held a customer order when it was asked
\* (one it already had or one handed to it in the same pass); and a trader whose
\* trade was settled in the previous pass returns None unless a new customer
\* order is handed to it first.
C16_NoOrderNoQuote ==
    [][IsTick =>
          /\ tick'.order # NoOrder =>
                traders[tick'.tid].orders # <<>> \/ tick'.tid \in IssuedTids
          /\ (tick'.tid \in SettledTids /\ tick'.tid \notin IssuedTids) =>
                tick'.order = NoOrder]_vars

\* a trader asked for a quote after its trade was settled and before its next
\* customer order: it has traded, holds no customer order, and returned None
C16_Witness ==
    /\ pc = "loop"
    /\ tick.tid \in Tids
    /\ tick.order = NoOrder
    /\ traders[tick.tid].n_trades > 0
    /\ traders[tick.tid].orders = <<>>

\* the customer order trader p works on when a quote is processed in this pass:
\* the one handed to it in this pass, or else the one it already held
HeldOrder(p) ==
    IF p \in IssuedTids THEN CHOOSE o \in IssuedNow : o.tid = p
    ELSE traders[p].orders[1]

SignedProfit(limit, trade) ==
    IF limit.otype = "Bid" THEN limit.price - trade.price ELSE trade.price - limit.price

\* C17: for each Trade returned by process_order2 in a session, bookkeep runs
\* once on party1 and once on party2 (two different traders), the program goes
\* on, and each of the two has the signed profit (limit - trade price for a Bid,
\* trade price - limit for an Ask) added to its balance, n_trades one higher,
\* the trade appended to its blotter and no pending customer order; the other
\* traders' accounts are untouched.
C17_BothPartiesSettled ==
    [][(IsTick /\ tick'.trade # NoTrade) =>
          LET trade == tick'.trade
          IN /\ trade = last'.trade
             /\ trade.party1 # trade.party2
             /\ pc' = "loop"
             /\ Len(tick'.settled) = 2
             /\ tick'.settled[1][1] = trade.party1
             /\ tick'.settled[2][1] = trade.party2
             /\ \A p \in {trade.party1, trade.party2} :
                   /\ traders'[p].balance = traders[p].balance + SignedProfit(HeldOrder(p), trade)
                   /\ traders'[p].n_trades = traders[p].n_trades + 1
                   /\ traders'[p].blotter = Append(traders[p].blotter, trade)
                   /\ traders'[p].orders = <<>>
             /\ \A p \in Tids \ {trade.party1, trade.party2} :
                   /\ traders'[p].balance = traders[p].balance
                   /\ traders'[p].n_trades = traders[p].n_trades
                   /\ traders'[p].blotter = traders[p].blotter]_vars

\* a settled trade that paid one party a profit and the other none
C17_Witness ==
    /\ pc = "loop"
    /\ tick.trade # NoTrade
    /\ Len(tick.settled) = 2
    /\ tick.settled[1][2] + tick.settled[2][2] = 1
    /\ traders[tick.trade.party1].n_trades = 1
    /\ traders[tick.trade.party2].blotter = <<tick.trade>>

C19_AllRespondEveryTick ==
    [][(IsTick /\ pc' = "loop" /\ exchange' # exchange) =>
          /\ tick'.responds = Roster
          /\ tick'.lob = publish_lob(exchange', time)]_vars

\* the same for the passes in which the selected trader's quote was processed
C19_AllRespondAfterQuote ==
    [][(IsTick /\ pc' = "loop" /\ last'.op = "process_order2") =>
          /\ tick'.responds = Roster
          /\ tick'.lob = publish_lob(exchange', time)]_vars

\* a quote on the wrong side of a customer limit: a Bid above it, an Ask below it
WrongSide(quote, limit) ==
    \/ quote.otype = "Bid" /\ quote.price > limit.price
    \/ quote.otype = "Ask" /\ quote.price < limit.price

\* C20: a quote on the wrong side of the quoting trader's pending customer limit
\* ends the session before the quote reaches the Exchange: the program exits
\* with 'Bad bid' or 'Bad ask', process_order2 is not called and the Exchange
\* stays as the kill loop left it. Hence every order resting in the book is on
\* the right side of its owner's pending customer limit, and so is the quote of
\* the aggressor in every Trade.
C20_BadQuoteAborts ==
    [][IsTick =>
          /\ (tick'.order # NoOrder /\ WrongSide(tick'.order, HeldOrder(tick'.tid))) =>
                /\ pc' = (IF tick'.order.otype = "Bid" THEN "Bad bid" ELSE "Bad ask")
                /\ last'.op = "none"
                /\ exchange' = Kills(exchange, traders, time, tick'.kills)
          /\ \A o \in RestingOrders(exchange') :
                /\ traders'[o.tid].orders # <<>>
                /\ ~WrongSide(o, traders'[o.tid].orders[1])
          /\ tick'.trade # NoTrade => ~WrongSide(tick'.order, HeldOrder(tick'.tid))]_vars

\* the session ended on a Bid above the buyer's limit, with nothing of the
\* buyer in the book
C20_Witness ==
    /\ pc = "Bad bid"
    /\ tick.order.otype = "Bid"
    /\ tick.order.price > traders[tick.tid].orders[1].price
    /\ ~HasRestingQuote(exchange, tick.tid)

Cancelled == last.op = "del_order"

\* the best price of a non-empty side is the best of its resting orders and the
\* best owner has an order resting at that price
BestIsTrue(h) ==
    /\ h.best_price = BestResting(h)
    /\ \E i \in 1 .. Len(h.orders) :
          h.orders[i].tid = h.best_tid /\ h.orders[i].price = h.best_price

\* C21: del_order(time, order) removes the order that order.tid has resting on
\* the side order.otype names, if there is one, and leaves that side's orders as
\* they were otherwise; the other side, every other owner's order and the id
\* counter are unchanged; the side's best price and best owner are None when
\* the side is now empty and the true best of the remaining orders otherwise;
\* exactly one Cancel record, carrying the given order, is appended to the tape.
C21_DelOrderFrame ==
    Cancelled =>
        LET o == last.order
            before == Half(last.before, o.otype)
            after == Half(exchange, o.otype)
        IN /\ after.orders = DictDel(before.orders, o.tid)
           /\ o.tid \notin DictKeys(after.orders)
           /\ after.n_orders = Len(after.orders)
           /\ Half(exchange, Opposite(o.otype)) = Half(last.before, Opposite(o.otype))
           /\ exchange.quote_id = last.before.quote_id
           /\ IF Len(after.orders) = 0
              THEN after.best_price = None /\ after.best_tid = NoTid
              ELSE BestIsTrue(after)
           /\ Len(exchange.tape) = Len(last.before.tape) + 1
           /\ SubSeq(exchange.tape, 1, Len(last.before.tape)) = last.before.tape
           /\ exchange.tape[Len(exchange.tape)].type = "Cancel"
           /\ exchange.tape[Len(exchange.tape)].order = o

\* a cancel given an order object that is not the resting one removed the
\* owner's resting order and left another owner's order on that side
C21_Witness ==
    /\ Cancelled
    /\ last.order.tid \in DictKeys(Half(last.before, last.order.otype).orders)
    /\ DictGet(Half(last.before, last.order.otype).orders, last.order.tid) # last.order
    /\ Len(Half(exchange, last.order.otype).orders) = 1

\* the side of the exchange that delete_best has just emptied in a trade
EmptiedByTrade(otype) == Traded /\ Len(Half(exchange, otype).orders) = 0

\* C24: when delete_best removes the last resting order of a side, that side's
\* best price after the call is its worst-price stub (bse_sys_minprice for the
\* bid side, bse_sys_maxprice for the ask side).
C24_EmptiedSideBestIsWorst ==
    \A otype \in OTypes :
        EmptiedByTrade(otype) =>
            Half(exchange, otype).best_price = Half(exchange, otype).worstprice

\* the part of a book side that book_add and book_del maintain
SideState(h) ==
    [orders |-> h.orders, lob |-> h.lob, lob_anon |-> h.lob_anon,
     best_price |-> h.best_price, best_tid |-> h.best_tid, n_orders |-> h.n_orders]

\* book_add(order) followed by book_del of that order's owner
RoundTrip(h, order) == book_del(book_add(h, order).half, order)

\* the side an order was sent to, as it was before process_order2 admitted it
SideBefore == Half(last.before, last.order.otype)

\* C22 (as stated): for every reachable book side and every order, book_add
\* followed by book_del of the order's owner restores the side's owner map,
\* price index, anonymized view, best price, best owner and n_orders exactly.
\* Checked on every side an order is admitted to, with the admitted order.
C22_RoundTripRestores ==
    Processed => SideState(RoundTrip(SideBefore, last.order)) = SideState(SideBefore)

\* C22 (amended): the round trip restores the side exactly when the owner had
\* no order resting on it (the book_add is an Addition); when the owner had
\* one (an Overwrite) the round trip leaves the side as it was without the
\* owner's order: every other owner's order in place, index, view and best
\* rebuilt from those, and the owner's earlier order gone.
C22_RoundTripRestoresAfterAddition ==
    Processed =>
        LET h == SideBefore
            o == last.order
            r == RoundTrip(SideBefore, last.order)
        IN IF o.tid \notin DictKeys(h.orders)
           THEN /\ book_add(h, o).response = "Addition"
                /\ SideState(r) = SideState(h)
           ELSE /\ book_add(h, o).response = "Overwrite"
                /\ r.orders = DictDel(h.orders, o.tid)
                /\ r.n_orders = h.n_orders - 1
                /\ r.lob = LobOf(r.orders)
                /\ r.lob_anon = anonymize_lob(r.lob)
                /\ IF r.n_orders = 0
                   THEN r.best_price = None /\ r.best_tid = NoTid
                   ELSE BestIsTrue(r)

\* a side holding another owner's order, to which an order that becomes the new
\* best was added: removing it again gives the side back
C22_Witness ==
    /\ Processed
    /\ Len(SideBefore.orders) > 0
    /\ last.order.tid \notin DictKeys(SideBefore.orders)
    /\ book_add(SideBefore, last.order).half.best_tid = last.order.tid
    /\ SideState(RoundTrip(SideBefore, last.order)) = SideState(SideBefore)

\* the order process_order2 was given is one its owner already had resting:
\* same owner, side and price
Resubmitted ==
    /\ Processed
    /\ \E i \in 1 .. Len(SideBefore.orders) :
          /\ SideBefore.orders[i].tid = last.order.tid
          /\ SideBefore.orders[i].price = last.order.price

\* the side right after add_order admitted the order, before any matching
SideAdmitted == Half(last.admitted, last.order.otype)

\* C23: submitting the same order (same owner, side and price) a second time
\* through add_order yields Overwrite, not Addition, and the side's n_orders,
\* anonymized depth view, best price and best owner are the same as after the
\* first submission.
C23_ResubmitIsOverwrite ==
    Resubmitted =>
        /\ last.response = "Overwrite"
        /\ SideAdmitted.n_orders = SideBefore.n_orders
        /\ SideAdmitted.lob_anon = SideBefore.lob_anon
        /\ SideAdmitted.best_price = SideBefore.best_price
        /\ SideAdmitted.best_tid = SideBefore.best_tid

\* an order resubmitted at a price where another owner rests as well, given a
\* new quote id and a later time on its second submission
C23_Witness ==
    /\ Resubmitted
    /\ SideBefore.lob[last.order.price].qty = 2
    /\ \E i \in 1 .. Len(SideBefore.orders) :
          /\ SideBefore.orders[i].tid = last.order.tid
          /\ SideBefore.orders[i].qid < last.order.qid
          /\ SideBefore.orders[i].time < last.order.time

\* ascending by price, one entry per price
AscendingView(view) == \A i, j \in 1 .. Len(view) : i < j => view[i][1] < view[j][1]

\* the owner delete_best would remove from a non-empty side
NextDeleted(h) == delete_best(h).counterparty

Quoting == tick.tid \in Tids /\ tick.order # NoOrder

\* C25: every order admitted to the Exchange during a session, from any of the
\* strategies, has an integer price p with bse_sys_minprice <= p <=
\* bse_sys_maxprice.
C25_AdmittedPricesInRange ==
    Processed => last.order.price \in bse_sys_minprice .. bse_sys_maxprice

\* C26: a ZIC trader with a pending Bid of limit L quotes an integer price in
\* [bids.worst, L], and with a pending Ask of limit L a price in [L, asks.worst],
\* for every draw and every snapshot; bids.worst is bse_sys_minprice and
\* asks.worst is bse_sys_maxprice.
C26_ZICQuoteInRange ==
    (Quoting /\ tick.ttype = "ZIC") =>
        /\ tick.seen.bids.worst = bse_sys_minprice
        /\ tick.seen.asks.worst = bse_sys_maxprice
        /\ tick.order.otype = tick.customer.otype
        /\ IF tick.customer.otype = "Bid"
           THEN tick.order.price \in tick.seen.bids.worst .. tick.customer.price
           ELSE tick.order.price \in tick.customer.price .. tick.seen.asks.worst

\* a ZIC buyer quoting strictly between the worst bid price and its limit
C26_Witness ==
    /\ Quoting /\ tick.ttype = "ZIC" /\ tick.customer.otype = "Bid"
    /\ tick.seen.bids.worst < tick.order.price
    /\ tick.order.price < tick.customer.price

\* C28: for Giveaway, ZIC, Shaver, Sniper and ZIP traders with customer limits
\* inside [bse_sys_minprice, bse_sys_maxprice], every quote getorder returns has
\* the side of the pending customer order and a price that does not go through
\* the limit (Bid price <= limit, Ask price >= limit), so the session never ends
\* with 'Bad bid' or 'Bad ask'.
C28_NoQuoteThroughLimit ==
    /\ pc \notin {"Bad bid", "Bad ask"}
    /\ Quoting =>
          /\ tick.ttype \in TTypes
          /\ tick.order.otype = tick.customer.otype
          /\ tick.order.otype = "Bid" => tick.order.price <= tick.customer.price
          /\ tick.order.otype = "Ask" => tick.order.price >= tick.customer.price

\* a ZIP seller whose quote above its limit was admitted
C28_Witness ==
    /\ Quoting /\ Processed /\ tick.ttype = "ZIP" /\ tick.order.otype = "Ask"
    /\ tick.order.price > tick.customer.price

\* C29: a Shaver with a pending order quotes one tick inside the published best
\* price of its own side (best bid + 1 for a Bid, best ask - 1 for an Ask), its
\* limit instead when that would go through the limit, and the side's
\* worst-price stub when its own side of the book is empty.
C29_ShaverQuoteRule ==
    (Quoting /\ tick.ttype = "SHVR") =>
        LET limit == tick.customer.price
            own == Half(tick.seen, tick.customer.otype)
            inside == IF tick.customer.otype = "Bid" THEN own.best + 1 ELSE own.best - 1
            through == IF tick.customer.otype = "Bid" THEN inside > limit ELSE inside < limit
        IN /\ tick.order.otype = tick.customer.otype
           /\ tick.order.price = IF own.n = 0 THEN own.worst
                                 ELSE IF through THEN limit ELSE inside

\* a Shaver improving the best price of its own side by one tick, short of its limit
C29_Witness ==
    /\ Quoting /\ tick.ttype = "SHVR"
    /\ Half(tick.seen, tick.customer.otype).n > 0
    /\ tick.order.price # tick.customer.price
    /\ Abs(tick.order.price - Half(tick.seen, tick.customer.otype).best) = 1

\* C30: for a ZIP trader, after any sequence of getorder and respond calls, the
\* buy margin is strictly negative and the sell margin strictly positive.
C30_ZIPMarginsKeepSign ==
    \A t \in Tids :
        traders[t].ttype = "ZIP" =>
            /\ RatLess(traders[t].margin_buy, Zero)
            /\ RatLess(Zero, traders[t].margin_sell)

\* the margins Trader_ZIP.__init__ can draw
InitialMargins(t) ==
    {[buy |-> Trader_ZIP(t, 0, 0, d).margin_buy, sell |-> Trader_ZIP(t, 0, 0, d).margin_sell] :
        d \in ZIPDraws}

\* a pass in which one ZIP trader's profit_alter installed a new margin
C30_Witness ==
    \E t \in tick.altered :
        [buy |-> traders[t].margin_buy, sell |-> traders[t].margin_sell] \notin InitialMargins(t)

\* a pass in which a ZIP trader's profit_alter ran and kept both margins
C30_RejectedWitness ==
    \E t \in tick.altered :
        [buy |-> traders[t].margin_buy, sell |-> traders[t].margin_sell] \in InitialMargins(t)

IsTrade(rec) == rec.type = "Trade"

\* the Cancel records the snapshot seen by the selected trader holds beyond the
\* tape as it was when the pass began
CancelsSeen ==
    {tick'.seen.tape[i].order.tid : i \in (Len(exchange.tape) + 1) .. Len(tick'.seen.tape)}

\* the orders of a side that belong to none of the traders in kills
Surviving(h, kills) == SelectSeq(h.orders, LAMBDA o : o.tid \notin Range(kills))

\* C33: in every pass through the loop exactly one trader is selected and at most
\* one order is sent to the Exchange, so at most one Trade record is appended to
\* the tape; the cancellations for newly issued customer orders are applied
\* before the snapshot for the selected trader is published and its quote
\* obtained (the snapshot shows the Cancel records and none of the cancelled
\* quotes, and the quote carries the snapshot's QID); and both counterparties of
\* a trade are settled before the respond loop begins.
C33_OneQuotePerTickInOrder ==
    [][IsTick =>
          /\ tick'.tid \in Tids
          /\ exchange'.quote_id - exchange.quote_id \in {0, 1}
          /\ exchange'.quote_id = exchange.quote_id + 1 <=> last'.op = "process_order2"
          /\ Len(SelectSeq(exchange'.tape, IsTrade)) - Len(SelectSeq(exchange.tape, IsTrade))
                = (IF tick'.trade # NoTrade THEN 1 ELSE 0)
          /\ CancelsSeen = Range(tick'.kills)
          /\ tick'.seen.bids.n = Len(Surviving(exchange.bids, tick'.kills))
          /\ tick'.seen.asks.n = Len(Surviving(exchange.asks, tick'.kills))
          /\ tick'.order # NoOrder => tick'.order.qid = tick'.seen.QID
          /\ (tick'.trade # NoTrade /\ tick'.responds # <<>>) =>
                \A p \in {tick'.trade.party1, tick'.trade.party2} :
                   /\ tick'.heard[p].orders = <<>>
                   /\ tick'.heard[p].blotter = Append(traders[p].blotter, tick'.trade)]_vars

\* a pass that cancelled a resting quote, then got a quote from the selected
\* trader, sent it to the Exchange and had every trader respond
C33_Witness ==
    /\ pc = "loop"
    /\ Len(tick.kills) > 0
    /\ \E i \in 1 .. Len(tick.seen.tape) :
          /\ tick.seen.tape[i].type = "Cancel"
          /\ tick.seen.tape[i].time = tick.seen.time
          /\ HasRestingQuote(last.before, tick.tid) = FALSE
    /\ tick.order # NoOrder
    /\ tick.responds = Roster

\* C34: a market session always terminates: every pass through the loop moves
\* the clock forward by one timestep, the loop is left once the clock has
\* reached endtime, and every run of the session leaves the loop (by reaching
\* endtime or by an exit inside a pass).
C34_SessionTerminates ==
    /\ [][(pc = "loop" /\ pc' # "done") => time' = time + 1]_vars
    /\ [][pc' = "done" => (time' = time /\ ~(time < MaxTicks))]_vars
    /\ <>(pc # "loop")

\* the session ran to endtime and left the loop
C34_Witness == pc = "done" /\ time = MaxTicks /\ Len(exchange.tape) > 0

\* C35: whenever a trader has an order resting in the book, the trader has
\* exactly one pending customer order, the resting order is of that customer
\* order's side, its price does not go through that order's limit, and it was
\* quoted for that assignment (after the customer order's issue time); hence
\* bookkeep never ends the program on a counterparty without a pending order.
C35_RestingQuoteHasItsAssignment ==
    /\ \A o \in RestingOrders(exchange) :
          /\ Len(traders[o.tid].orders) = 1
          /\ o.otype = traders[o.tid].orders[1].otype
          /\ ~WrongSide(o, traders[o.tid].orders[1])
          /\ o.time > traders[o.tid].orders[1].time
    /\ pc \notin {"IndexError", "sys.exit"}

\* a quote resting for its owner's second customer order, the first one traded
C35_Witness ==
    \E o \in RestingOrders(exchange) :
       /\ traders[o.tid].n_trades = 1
       /\ Len(traders[o.tid].orders) = 1
       /\ o.time > traders[o.tid].orders[1].time

\* C38: with every trader born at the session's start time, bookkeep is never
\* called at a time equal to the trader's birthtime: the program never ends on
\* the division by (time - birthtime), and every trade on the tape is later
\* than both parties' birthtime, the first customer orders being issued only in
\* a later pass than the first.
C38_NoTradeAtBirthtime ==
    /\ pc # "ZeroDivisionError"
    /\ \A i \in 1 .. Len(exchange.tape) :
          exchange.tape[i].type = "Trade" =>
             /\ exchange.tape[i].time > traders[exchange.tape[i].party1].birthtime
             /\ exchange.tape[i].time > traders[exchange.tape[i].party2].birthtime
    /\ time <= 1 => \A t \in Tids : traders[t].orders = <<>>

\* the earliest trade a session can make, settled on both parties
C38_Witness ==
    /\ pc = "loop"
    /\ tick.trade # NoTrade
    /\ Len(tick.settled) = 2
    /\ \A t \in Tids : traders[t].n_trades = 1 /\ traders[t].profitpertime[2] = tick.trade.time
    /\ tick.trade.time = 3

\* the traders of the last pass whose respond returned and keeps a memory of
\* the best prices
Heard == {t \in tick.returned : tick.heard[t].ttype \in Learners}

\* the quantity at the best bid and at the best ask of a published LOB
BestBidQty(lob) == IF lob.bids.best = None THEN None ELSE lob.bids.lob[Len(lob.bids.lob)][2]
BestAskQty(lob) == IF lob.asks.best = None THEN None ELSE lob.asks.lob[1][2]

\* the most recent record of the tape of a published LOB is a Cancel
EndsWithCancel(lob) == Len(lob.tape) > 0 /\ lob.tape[Len(lob.tape)].type = "Cancel"

\* C31: every respond of a ZIP, AA or GDX trader that returns sets at most one of
\* 'improved' and 'hit/lifted' for a side; on a non-empty side it sets 'hit/lifted'
\* only if a trade was passed in and the best price worsened, or stayed equal
\* with a reduced quantity; on a side that was non-empty at the previous call
\* and is empty now it sets 'hit/lifted' exactly when the most recent record of
\* the tape is not a Cancel; and afterwards the remembered best price and
\* quantity of each side are the current ones
C31_RespondClassifiesEachSide ==
    \A t \in Heard :
       /\ ~(tick.flags[t].bid_improved /\ tick.flags[t].bid_hit)
       /\ ~(tick.flags[t].ask_improved /\ tick.flags[t].ask_lifted)
       /\ (tick.lob.bids.best # None /\ tick.flags[t].bid_hit) =>
              /\ tick.trade # NoTrade
              /\ tick.heard[t].prev_best_bid_p # None
              /\ \/ tick.heard[t].prev_best_bid_p > tick.lob.bids.best
                 \/ /\ tick.heard[t].prev_best_bid_p = tick.lob.bids.best
                    /\ tick.heard[t].prev_best_bid_q > BestBidQty(tick.lob)
       /\ (tick.lob.asks.best # None /\ tick.flags[t].ask_lifted) =>
              /\ tick.trade # NoTrade
              /\ tick.heard[t].prev_best_ask_p # None
              /\ \/ tick.heard[t].prev_best_ask_p < tick.lob.asks.best
                 \/ /\ tick.heard[t].prev_best_ask_p = tick.lob.asks.best
                    /\ tick.heard[t].prev_best_ask_q > BestAskQty(tick.lob)
       /\ (tick.heard[t].prev_best_bid_p # None /\ tick.lob.bids.best = None) =>
              (tick.flags[t].bid_hit <=> ~EndsWithCancel(tick.lob))
       /\ (tick.heard[t].prev_best_ask_p # None /\ tick.lob.asks.best = None) =>
              (tick.flags[t].ask_lifted <=> ~EndsWithCancel(tick.lob))
       /\ traders[t].prev_best_bid_p = tick.lob.bids.best
       /\ traders[t].prev_best_bid_q = BestBidQty(tick.lob)
       /\ traders[t].prev_best_ask_p = tick.lob.asks.best
       /\ traders[t].prev_best_ask_q = BestAskQty(tick.lob)

\* a pass in which a trader that remembered a best ask finds the ask side
\* emptied by cancellations and does not take it for lifted, while it
\* reports the bid side improved
C31_Witness ==
    \E t \in Heard :
       /\ tick.heard[t].prev_best_ask_p # None
       /\ tick.lob.asks.best = None
       /\ EndsWithCancel(tick.lob)
       /\ ~tick.flags[t].ask_lifted
       /\ tick.flags[t].bid_improved

\* the traders of the last pass whose respond was called and reads trade['price']
\* after a deal
DealReaders ==
    IF tick.heard = <<>> THEN {}
    ELSE {t \in (tick.returned \cup {tick.raised}) \ {NoTid} :
            tick.heard[t].ttype \in {"ZIP", "AA"}}

\* C36: in a session, whenever the respond of a ZIP or AA trader concludes that
\* a deal occurred, the trade passed to the call is a Trade record and not None;
\* and in a pass without a trade, a side such a trader remembers as non-empty
\* and finds empty has a Cancel as the most recent record of the tape
C36_DealComesWithTrade ==
    \A t \in DealReaders :
       /\ (tick.flags[t].bid_hit \/ tick.flags[t].ask_lifted) =>
             (tick.trade # NoTrade /\ tick.trade.type = "Trade")
       /\ (tick.trade = NoTrade /\ tick.heard[t].prev_best_bid_p # None
              /\ tick.lob.bids.best = None) => EndsWithCancel(tick.lob)
       /\ (tick.trade = NoTrade /\ tick.heard[t].prev_best_ask_p # None
              /\ tick.lob.asks.best = None) => EndsWithCancel(tick.lob)

\* a pass with a trade in which an AA trader concludes a deal and learns from it
\* while a ZIP trader concludes the same
C36_Witness ==
    /\ tick.trade # NoTrade
    /\ \E t \in DealReaders :
          /\ tick.heard[t].ttype = "AA"
          /\ tick.flags[t].bid_hit \/ tick.flags[t].ask_lifted
          /\ Len(traders[t].previous_transactions) = 1
    /\ \E t \in DealReaders :
          /\ tick.heard[t].ttype = "ZIP"
          /\ tick.flags[t].bid_hit \/ tick.flags[t].ask_lifted

\* the traders of the last pass whose respond returned a classification
Classifiers == {t \in tick.returned : tick.heard[t].ttype \in Learners}

\* C37: in a session, a respond sets bid_hit only if a resting bid was matched
\* by an incoming Ask since the trader's previous respond (every processed order
\* is followed by a respond, so: in this pass), and sets ask_lifted only if a
\* resting ask was matched by an incoming Bid
C37_HitMeansRestingOrderMatched ==
    \A t \in Classifiers :
       /\ tick.flags[t].bid_hit =>
             /\ tick.trade # NoTrade
             /\ tick.order.otype = "Ask"
             /\ Half(last.before, "Bid").best_price # None
       /\ tick.flags[t].ask_lifted =>
             /\ tick.trade # NoTrade
             /\ tick.order.otype = "Bid"
             /\ Half(last.before, "Ask").best_price # None

\* C39: a GDX trader returns no quote before its first respond call, and a GDX
\* trader that holds a pending customer order and is selected again, after an
\* earlier selection in which it held an order, submits the quote it computed,
\* in a roster of GDX traders only as in any other
C39_GDXQuotesOnceSelectedAgain ==
    (tick.tid # NoTid /\ tick.asked.ttype = "GDX") =>
       /\ tick.order # NoOrder => ~tick.asked.first_turn
       /\ (Len(tick.asked.orders) > 0 /\ tick.asked.active /\ tick.got.price # <<-1, 1>>) =>
             tick.order # NoOrder

\* the limit of a customer order is worse than the best price of the other side
\* in the snapshot lob: a Bid limit below the best ask, an Ask limit above the
\* best bid
LimitWorseThanOpposite(order, lob) ==
    \/ order.otype = "Bid" /\ lob.asks.best # None /\ order.price < lob.asks.best
    \/ order.otype = "Ask" /\ lob.bids.best # None /\ order.price > lob.bids.best

LimitNoBetterThanRemembered(order, tr) ==
    \/ /\ order.otype = "Bid"
       /\ order.price <= (IF tr.prev_best_bid_p = None THEN 0 ELSE tr.prev_best_bid_p)
    \/ /\ order.otype = "Ask"
       /\ order.price >= (IF tr.prev_best_ask_p = None THEN bse_sys_maxprice
                          ELSE tr.prev_best_ask_p)

AACalculated(otype) ==
    /\ tick.tid # NoTid
    /\ tick.asked.ttype = "AA"
    /\ Len(tick.asked.orders) > 0
    /\ tick.asked.orders[1].otype = otype
    /\ tick.raised # tick.tid

\* C40: calcTarget of an AA trader working an Ask leaves buy_target unchanged
\* and leaves sell_target at least the limit; working a Bid it leaves
\* sell_target unchanged and buy_target at most the limit
C40_CalcTargetTouchesOwnSideOnly ==
    /\ AACalculated("Ask") =>
          /\ tick.got.buy_target = tick.asked.buy_target
          /\ tick.got.sell_target # NoRat
          /\ IsExact(tick.got.sell_target) =>
                ~RatLess(tick.got.sell_target, RatOfInt(tick.got.limit))
    /\ AACalculated("Bid") =>
          /\ tick.got.sell_target = tick.asked.sell_target
          /\ tick.got.buy_target # NoRat
          /\ IsExact(tick.got.buy_target) =>
                ~RatLess(RatOfInt(tick.got.limit), tick.got.buy_target)

====
